---- MODULE Spec2Model ----
(***************************************************************************)
(* Schema canonicalization (NKU-IIPLab/MPKG).                              *)
(*                                                                         *)
(* Two classes are modelled, selected by the variable `variant':           *)
(*   "cot"   SchemaCanonicalizer_CoT  (src/edc/schema_canonicalization_cot.py) *)
(*   "plain" SchemaCanonicalizer      (src/schema_canonicalization.py)     *)
(*                                                                         *)
(* Conventions.                                                            *)
(*  - A Python dict is an insertion-ordered sequence of <<key, value>>     *)
(*    pairs with pairwise distinct keys.                                   *)
(*  - A Python list is a sequence.  Python None is `None' where a string   *)
(*    is expected and `Nil' where a list, dict or triplet is expected.     *)
(*  - Confidence values are written in tenths: 10 = 1.0, 9 = 0.9, 7 = 0.7, *)
(*    5 = 0.5, 0 = 0.0.                                                    *)
(*  - Embedding vectors have small integer coordinates; scores are dot     *)
(*    products, as in the source.                                          *)
(***************************************************************************)
EXTENDS Integers, Sequences, FiniteSets, TLC

VARIABLES variant, sts_query, verifier, schema_dict, schema_embedding_dict,
          enriched, ncalls, pc, call, result, serialized, threads

vars == <<variant, sts_query, verifier, schema_dict, schema_embedding_dict,
          enriched, ncalls, pc, call, result, serialized, threads>>

(***************************************************************************)
(* Bounds of the model.                                                    *)
(***************************************************************************)
NumRels == 3
NumDefs == 2
MaxInitSchema == 2
MaxDictSize == 1
MaxTopK == 2
MaxCalls == 2
MaxOptionPieces == 3
MaxAnswerPieces == 3
MaxCandidates == 26

(***************************************************************************)
(* Program constants.                                                      *)
(***************************************************************************)
TopKDefault == 5

\* Python None where a string is expected / where a list or dict is expected.
None == "None"
Nil == <<>>

RelNames == <<"r1", "r2", "r3", "r4", "r5", "r6">>
DefNames == <<"d1", "d2", "d3", "d4">>
Rels == {RelNames[i] : i \in 1..NumRels}
Defs == {DefNames[i] : i \in 1..NumDefs}

(***************************************************************************)
(* Python dict operations on ordered sequences of <<key, value>> pairs.    *)
(***************************************************************************)
keys(d) == [i \in 1..Len(d) |-> d[i][1]]
values(d) == [i \in 1..Len(d) |-> d[i][2]]
KeySet(d) == {d[i][1] : i \in 1..Len(d)}
Has(d, k) == \E i \in 1..Len(d) : d[i][1] = k
Get(d, k) == d[CHOOSE i \in 1..Len(d) : d[i][1] = k][2]
SetItem(d, k, v) ==
    IF Has(d, k)
      THEN [i \in 1..Len(d) |-> IF d[i][1] = k THEN <<k, v>> ELSE d[i]]
      ELSE Append(d, <<k, v>>)
zip(ks, vs) ==
    [i \in 1..(IF Len(ks) < Len(vs) THEN Len(ks) ELSE Len(vs)) |-> <<ks[i], vs[i]>>]

(***************************************************************************)
(* The embedding capability (SentenceTransformer.encode), an external      *)
(* deterministic function of the text and the prompt name.  Definitions    *)
(* with the same text embed equally, so equal scores (ties) occur.         *)
(***************************************************************************)
encode(text, prompt_name) ==
    LET i == CHOOSE j \in 1..Len(DefNames) : DefNames[j] = text
    IN  IF prompt_name = "sts_query" THEN <<1, i>> ELSE <<i, 0>>

\* `if "sts_query" in self.embedder.prompts: encode(.., prompt_name="sts_query")
\*  else: encode(..)'
query_encode(sts, text) ==
    IF sts THEN encode(text, "sts_query") ELSE encode(text, None)

\* One row of `np.array([query_embedding]) @ np.array(list).T'
dot(u, v) == u[1] * v[1] + u[2] * v[2]
matmul_row(query_embedding, target_relation_embedding_list) ==
    [i \in 1..Len(target_relation_embedding_list) |->
        dot(query_embedding, target_relation_embedding_list[i])]

negate(a) == [i \in 1..Len(a) |-> 0 - a[i]]

IndexPermutations(n) ==
    {p \in [1..n -> 1..n] : \A i, j \in 1..n : i # j => p[i] # p[j]}

\* np.argsort(a) with the default kind ("quicksort"), which numpy documents
\* as not stable: any index permutation that sorts `a' ascending can be
\* returned; the order among equal elements depends on the numpy build.
argsort(a) ==
    {p \in IndexPermutations(Len(a)) :
        \A i \in 1..(Len(a) - 1) : a[p[i]] <= a[p[i + 1]]}

\* s[:k] for k >= 0
slice_to(s, k) == SubSeq(s, 1, IF k < Len(s) THEN k ELSE Len(s))

\* The scores computed by retrieve_similar_relations for a query definition.
retrieve_scores(emb, sts, query_relation_definition) ==
    matmul_row(query_encode(sts, query_relation_definition), values(emb))

\* The values np.argsort(-scores) can take for this query.
retrieve_orders(emb, sts, query_relation_definition) ==
    argsort(negate(retrieve_scores(emb, sts, query_relation_definition)))

\* The exception raised by retrieve_similar_relations when the embedding
\* call succeeds, or None: the matrix product with an empty embedding list
\* has mismatched shapes (ValueError); looking up in schema_dict a relation
\* that only the embedding cache holds is a KeyError.
retrieve_raises(schema, emb, top_k, highest_score_indices) ==
    IF Len(emb) = 0 THEN "ValueError"
    ELSE IF \E i \in 1..Len(slice_to(highest_score_indices, top_k)) :
               ~Has(schema, keys(emb)[highest_score_indices[i]])
         THEN "KeyError"
         ELSE None

\* retrieve_similar_relations, given the value highest_score_indices that
\* np.argsort(-scores) returned.  Result: <<similar_relations, similar_scores>>.
retrieve_similar_relations(schema, emb, sts, query_relation_definition, top_k, highest_score_indices) ==
    LET target_relation_list == keys(emb)
        scores == retrieve_scores(emb, sts, query_relation_definition)
        top == slice_to(highest_score_indices, top_k)
    IN  << [i \in 1..Len(top) |->
               <<target_relation_list[top[i]],
                 Get(schema, target_relation_list[top[i]])>>],
           [i \in 1..Len(top) |-> scores[top[i]]] >>

(***************************************************************************)
(* Text.  A Python str is a sequence of characters; a character is a       *)
(* one-element string, a non-ASCII character being written by its code     *)
(* point ("U+9009").  The characters below are those of the patterns in    *)
(* the source and of the model outputs considered.                         *)
(***************************************************************************)
UpperCase ==
    <<"A", "B", "C", "D", "E", "F", "G", "H", "I", "J", "K", "L", "M",
      "N", "O", "P", "Q", "R", "S", "T", "U", "V", "W", "X", "Y", "Z">>
LowerCase ==
    <<"a", "b", "c", "d", "e", "f", "g", "h", "i", "j", "k", "l", "m",
      "n", "o", "p", "q", "r", "s", "t", "u", "v", "w", "x", "y", "z">>
\* [A-Z], [a-z], [A-Za-z]
AZ == {UpperCase[i] : i \in 1..26}
az == {LowerCase[i] : i \in 1..26}
AZaz == AZ \cup az
\* The CJK ideographs of the patterns: xuan3 xiang4 ze2 da2 an4 geng4 he2
\* shi4 zui4 zhong1.
CJK == {"U+9009", "U+9879", "U+62E9", "U+7B54", "U+6848", "U+66F4", "U+5408",
        "U+9002", "U+6700", "U+7EC8"}
\* Fullwidth colon, ideographic full stop, fullwidth comma.
FullwidthColon == "U+FF1A"
IdeographicFullStop == "U+3002"
FullwidthComma == "U+FF0C"
\* \s
Whitespace == {" ", "\n", "\t"}
Punctuation == {".", ",", ":", FullwidthColon, IdeographicFullStop, FullwidthComma}
Chars == AZaz \cup CJK \cup Whitespace \cup Punctuation

\* str.isalpha() of one character: ideographs are alphabetic (category Lo).
isalpha(c) == c \in AZaz \cup CJK
isspace(c) == c \in Whitespace
\* str.upper() / case folding of one character
upper(c) ==
    IF c \in az THEN UpperCase[CHOOSE i \in 1..26 : LowerCase[i] = c] ELSE c
lower(c) ==
    IF c \in AZ THEN LowerCase[CHOOSE i \in 1..26 : UpperCase[i] = c] ELSE c

\* str.strip()
strip(text) ==
    LET inner == {i \in 1..Len(text) : ~isspace(text[i])}
    IN  IF inner = {} THEN <<>>
        ELSE SubSeq(text, CHOOSE i \in inner : \A j \in inner : i <= j,
                          CHOOSE i \in inner : \A j \in inner : j <= i)

\* text.split('\n'): the pieces between the newlines, empty ones included.
split_lines(text) ==
    LET nl == {i \in 1..Len(text) : text[i] = "\n"}
        cuts == {0} \cup nl \cup {Len(text) + 1}
        starts == {0} \cup nl
        nth(k) == CHOOSE c \in starts : Cardinality({d \in starts : d < c}) = k - 1
        next(c) == CHOOSE d \in cuts : d > c /\ \A e \in cuts : e > c => d <= e
    IN  [k \in 1..Cardinality(starts) |-> SubSeq(text, nth(k) + 1, next(nth(k)) - 1)]

\* '\n'.join(lines)
RECURSIVE join_lines(_)
join_lines(lines) ==
    IF Len(lines) = 0 THEN <<>>
    ELSE IF Len(lines) = 1 THEN lines[1]
    ELSE lines[1] \o <<"\n">> \o join_lines(Tail(lines))

\* [x for x in list if keep]
RECURSIVE filter_nonempty(_)
filter_nonempty(lines) ==
    IF Len(lines) = 0 THEN <<>>
    ELSE IF lines[1] = <<>> THEN filter_nonempty(Tail(lines))
    ELSE <<lines[1]>> \o filter_nonempty(Tail(lines))

(***************************************************************************)
(* Regular expressions (module re).  The patterns of the source are        *)
(* sequences of items, each a character class taken once or under `*',     *)
(* with one capturing group on a single item, optionally anchored with ^   *)
(* and $.  In every pattern of the source a starred class (\s) is disjoint *)
(* from the class of the item that follows it, so the greedy match never   *)
(* backtracks and matching from a start position is deterministic.         *)
(***************************************************************************)
one(cls) == [cls |-> cls, star |-> FALSE]
many(cls) == [cls |-> cls, star |-> TRUE]
\* A literal word: one item per character.
literal(word) == [i \in 1..Len(word) |-> one({word[i]})]
pattern(items, group, bol, eol) ==
    [items |-> items, group |-> group, bol |-> bol, eol |-> eol]

\* re.IGNORECASE: every class also accepts the other case of its characters.
ignorecase(p) ==
    [p EXCEPT !.items =
        [k \in 1..Len(p.items) |->
            [p.items[k] EXCEPT !.cls =
                @ \cup {upper(c) : c \in @} \cup {lower(c) : c \in @}]]]

\* Matching items k.. at position i of text; cap is the character captured
\* so far.  Result: <<end position, captured character>>, or Nil.
RECURSIVE match_at(_, _, _, _, _, _)
match_at(text, i, items, k, group, cap) ==
    IF k > Len(items) THEN <<i, cap>>
    ELSE IF i <= Len(text) /\ text[i] \in items[k].cls
    THEN match_at(text, i + 1, items, IF items[k].star THEN k ELSE k + 1,
                  group, IF k = group THEN text[i] ELSE cap)
    ELSE IF items[k].star THEN match_at(text, i, items, k + 1, group, cap)
    ELSE Nil

\* The pattern matches text starting at position s.
matches_at(p, text, s) ==
    /\ p.bol => s = 1
    /\ match_at(text, s, p.items, 1, p.group, "") # Nil
    /\ p.eol => \/ match_at(text, s, p.items, 1, p.group, "")[1] = Len(text) + 1
                \/ /\ match_at(text, s, p.items, 1, p.group, "")[1] = Len(text)
                   /\ text[Len(text)] = "\n"

\* re.search(p, text): <<match.start() (0-based), match.group(1)>> of the
\* leftmost match, or Nil.
search(p, text) ==
    LET starts == {s \in 1..(Len(text) + 1) : matches_at(p, text, s)}
    IN  IF starts = {} THEN Nil
        ELSE LET s == CHOOSE t \in starts : \A u \in starts : t <= u
             IN  <<s - 1, match_at(text, s, p.items, 1, p.group, "")[2]>>

\* The first pattern of the list that matches: <<index, match>>, or Nil.
first_match(patterns, text) ==
    LET hits == {k \in 1..Len(patterns) : search(patterns[k], text) # Nil}
    IN  IF hits = {} THEN Nil
        ELSE LET k == CHOOSE h \in hits : \A g \in hits : h <= g
             IN  <<k, search(patterns[k], text)>>

(***************************************************************************)
(* The answer extractors.                                                  *)
(***************************************************************************)
\* The words of the patterns: xuan3 xiang4 (option), xuan3 ze2 (choose),
\* da2 an4 (answer), geng4 he2 shi4 (more suitable), zui4 zhong1 da2 an4
\* (final answer).
WordOption == <<"U+9009", "U+9879">>
WordChoose == <<"U+9009", "U+62E9">>
WordAnswerZh == <<"U+7B54", "U+6848">>
WordSuitable == <<"U+66F4", "U+5408", "U+9002">>
WordFinalAnswerZh == <<"U+6700", "U+7EC8", "U+7B54", "U+6848">>
WordNswer == <<"n", "s", "w", "e", "r">>
WordAnswer == <<"A", "n", "s", "w", "e", "r">>
WordFinalAnswer == <<"F", "i", "n", "a", "l", " ", "A", "n", "s", "w", "e", "r">>
\* [:U+FF1A] and [.,U+3002U+FF0C\s]
Colons == {":", FullwidthColon}
StartFollowers == {".", ",", IdeographicFullStop, FullwidthComma} \cup Whitespace

\* word\s*([letter])
word_then_letter(word, letter) ==
    pattern(literal(word) \o <<many(Whitespace), one(letter)>>,
            Len(word) + 2, FALSE, FALSE)
\* ([letter])\s*word
letter_then_word(letter, word) ==
    pattern(<<one(letter), many(Whitespace)>> \o literal(word), 1, FALSE, FALSE)
\* head\s*[:U+FF1A]\s*([letter]), head a sequence of items
marker(head, letter) ==
    pattern(head \o <<many(Whitespace), one(Colons), many(Whitespace), one(letter)>>,
            Len(head) + 4, FALSE, FALSE)
\* ^([letter])[.,U+3002U+FF0C\s]
starting_letter(letter) ==
    pattern(<<one(letter), one(StartFollowers)>>, 1, TRUE, FALSE)
\* [^letter]([letter])[^letter]
isolated_letter(letter) ==
    pattern(<<one(Chars \ letter), one(letter), one(Chars \ letter)>>,
            2, FALSE, FALSE)

\* ' ' + text + ' '
padded(text) == <<" ">> \o text \o <<" ">>

\* letters = [c.upper() for c in text if c.isalpha()]
RECURSIVE alpha_letters(_)
alpha_letters(text) ==
    IF Len(text) = 0 THEN <<>>
    ELSE IF isalpha(text[1]) THEN <<upper(text[1])>> \o alpha_letters(Tail(text))
    ELSE alpha_letters(Tail(text))

\* `for letter in letters: if 'A' <= letter <= 'F': return letter'
\* The first letter in A-F, or None.
first_A_to_F(letters) ==
    LET hits == {i \in 1..Len(letters) :
                    letters[i] \in {"A", "B", "C", "D", "E", "F"}}
    IN  IF hits = {} THEN None
        ELSE letters[CHOOSE i \in hits : \A j \in hits : i <= j]

\* match.group(1).upper() of a search result that is not Nil
group_upper(m) == upper(m[2])

\* The re.search calls of SchemaCanonicalizer.extract_option_letter that
\* precede the isolated-letter search, in order (steps 2 to 6).
option_patterns ==
    << word_then_letter(WordOption, AZaz),
       letter_then_word(AZaz, WordOption),
       word_then_letter(WordChoose, AZaz),
       marker(<<one({"A", "a"})>> \o literal(WordNswer), AZaz),
       marker(literal(WordAnswerZh), AZaz),
       starting_letter(AZaz) >>

\* Step 9 of SchemaCanonicalizer.extract_option_letter: a letter in A-F
\* first, else the first alphabetic character, else None.
fallback_letter(text) ==
    IF Len(alpha_letters(text)) = 0 THEN None
    ELSE IF first_A_to_F(alpha_letters(text)) # None
    THEN first_A_to_F(alpha_letters(text))
    ELSE alpha_letters(text)[1]

\* Mutant of extract_option_letter: the isolated-letter search runs before
\* the keyword patterns.
extract_option_letter_isolated_first(text) ==
    IF Len(text) = 1 /\ isalpha(text[1]) THEN upper(text[1])
    ELSE IF search(isolated_letter(AZaz), padded(text)) # Nil
    THEN group_upper(search(isolated_letter(AZaz), padded(text)))
    ELSE IF first_match(option_patterns, text) # Nil
    THEN group_upper(first_match(option_patterns, text)[2])
    ELSE IF search(letter_then_word(AZaz, WordSuitable), text) # Nil
    THEN group_upper(search(letter_then_word(AZaz, WordSuitable), text))
    ELSE fallback_letter(text)

\* SchemaCanonicalizer.extract_option_letter
extract_option_letter(text) ==
    IF Len(text) = 1 /\ isalpha(text[1]) THEN upper(text[1])
    ELSE IF first_match(option_patterns, text) # Nil
    THEN group_upper(first_match(option_patterns, text)[2])
    ELSE IF search(isolated_letter(AZaz), padded(text)) # Nil
    THEN group_upper(search(isolated_letter(AZaz), padded(text)))
    ELSE IF search(letter_then_word(AZaz, WordSuitable), text) # Nil
    THEN group_upper(search(letter_then_word(AZaz, WordSuitable), text))
    ELSE fallback_letter(text)

\* `patterns' of SchemaCanonicalizer_CoT.extract_option_letter, each searched
\* with re.IGNORECASE.
option_patterns_cot ==
    << ignorecase(pattern(<<one(AZ)>>, 1, TRUE, TRUE)),
       ignorecase(word_then_letter(WordOption, AZ)),
       ignorecase(letter_then_word(AZ, WordOption)),
       ignorecase(word_then_letter(WordChoose, AZ)),
       ignorecase(marker(<<one({"A", "a"})>> \o literal(WordNswer), AZ)),
       ignorecase(marker(literal(WordAnswerZh), AZ)),
       ignorecase(starting_letter(AZ)),
       ignorecase(letter_then_word(AZ, WordSuitable)) >>

\* SchemaCanonicalizer_CoT.extract_option_letter after `text = text.strip()'
extract_option_letter_cot_stripped(text) ==
    IF Len(text) = 1 /\ isalpha(text[1]) THEN upper(text[1])
    ELSE IF first_match(option_patterns_cot, text) # Nil
    THEN group_upper(first_match(option_patterns_cot, text)[2])
    ELSE IF search(isolated_letter(AZ), padded(text)) # Nil
    THEN group_upper(search(isolated_letter(AZ), padded(text)))
    ELSE first_A_to_F(alpha_letters(text))

\* SchemaCanonicalizer_CoT.extract_option_letter
extract_option_letter_cot(text) == extract_option_letter_cot_stripped(strip(text))

\* `patterns' of extract_cot_answer with their confidences (in tenths), each
\* searched with re.IGNORECASE.
cot_answer_patterns ==
    << ignorecase(marker(literal(WordFinalAnswerZh), AZ)),
       ignorecase(marker(literal(WordFinalAnswer), AZ)),
       ignorecase(marker(literal(WordAnswerZh), AZ)),
       ignorecase(marker(literal(WordAnswer), AZ)) >>
\* Mutant of cot_answer_confidences: the English answer marker is not
\* trusted.
cot_answer_confidences_untrusted == <<10, 10, 9, 0>>
cot_answer_confidences == <<10, 10, 9, 9>>

\* lines = [l.strip() for l in cot_text.strip().split('\n') if l.strip()]
nonempty_lines(cot_text) ==
    LET raw == split_lines(strip(cot_text))
    IN  filter_nonempty([k \in 1..Len(raw) |-> strip(raw[k])])

\* Mutant of cot_answer_marked: the reasoning is the full text.
cot_answer_marked_full_text(cot_text, m) ==
    <<cot_text, group_upper(m[2]), cot_answer_confidences[m[1]]>>

\* Strategy 1 of extract_cot_answer, m the first match of the patterns.
cot_answer_marked(cot_text, m) ==
    << strip(SubSeq(cot_text, 1, m[2][1])), group_upper(m[2]),
       cot_answer_confidences[m[1]] >>

\* Strategies 2 to 4 of extract_cot_answer.
cot_answer_unmarked(cot_text, lines) ==
    IF Len(lines) > 0 /\ extract_option_letter_cot(lines[Len(lines)]) # None
    THEN << strip(join_lines(SubSeq(lines, 1, Len(lines) - 1))),
            extract_option_letter_cot(lines[Len(lines)]), 7 >>
    ELSE IF extract_option_letter_cot(cot_text) # None
    THEN <<cot_text, extract_option_letter_cot(cot_text), 5>>
    ELSE <<cot_text, None, 0>>

\* Mutant of extract_cot_answer: the last line and the full text are tried
\* before the answer markers.
extract_cot_answer_markers_last(cot_text) ==
    IF cot_answer_unmarked(cot_text, nonempty_lines(cot_text))[2] # None
    THEN cot_answer_unmarked(cot_text, nonempty_lines(cot_text))
    ELSE IF first_match(cot_answer_patterns, cot_text) # Nil
    THEN cot_answer_marked(cot_text, first_match(cot_answer_patterns, cot_text))
    ELSE <<cot_text, None, 0>>

\* SchemaCanonicalizer_CoT.extract_cot_answer:
\* <<reasoning, option or None, confidence>>
extract_cot_answer(cot_text) ==
    IF first_match(cot_answer_patterns, cot_text) # Nil
    THEN cot_answer_marked(cot_text, first_match(cot_answer_patterns, cot_text))
    ELSE cot_answer_unmarked(cot_text, nonempty_lines(cot_text))

(***************************************************************************)
(* The verification step.  The generation capability and the answer        *)
(* extractor are driven by the model output, which is an input of the      *)
(* call: `answer' is what the extractor returned on that output.           *)
(***************************************************************************)
AsciiFrom64 ==
    <<"@", "A", "B", "C", "D", "E", "F", "G", "H", "I", "J", "K", "L", "M",
      "N", "O", "P", "Q", "R", "S", "T", "U", "V", "W", "X", "Y", "Z", "[",
      "\\", "]">>
chr(n) == AsciiFrom64[n - 63]
ord(c) == 63 + (CHOOSE i \in 1..Len(AsciiFrom64) : AsciiFrom64[i] = c)

In(x, list) == \E i \in 1..Len(list) : list[i] = x
\* list.index(x), 0-based
index(list, x) ==
    (CHOOSE i \in 1..Len(list) :
        list[i] = x /\ \A j \in 1..(i - 1) : list[j] # x) - 1

\* Mutant of choice_letters: `chr(ord("A") + idx + 1)', lettering from "B".
choice_letters_from_B(candidate_relations) ==
    [i \in 1..Len(candidate_relations) |-> chr(ord("A") + (i - 1) + 1)]

\* choice_letters_list as built by the loop over enumerate(candidate_relations)
choice_letters(candidate_relations) ==
    [i \in 1..Len(candidate_relations) |-> chr(ord("@") + (i - 1) + 1)]

\* The letter of the "None of the above" option.
none_option_letter(candidate_relations) ==
    chr(ord("@") + Len(candidate_relations) + 1)

\* The values extract_cot_answer can return, <<reasoning, letter, confidence>>,
\* by its return statements: a letter with confidence 1.0, 0.9, 0.7 or 0.5,
\* or no letter with confidence 0.0.
extract_cot_answer_results(letters, reasonings) ==
    {<<r, l, c>> : r \in reasonings, l \in letters, c \in {10, 9, 7, 5}}
        \cup {<<r, None, 0>> : r \in reasonings}

\* The values extract_option_letter (plain variant) can return.
extract_option_letter_results(letters) == letters \cup {None}

\* Mutant of llm_verify_cot: the "None of the above" letter is accepted and
\* selects the last candidate.
llm_verify_cot_none_selects(query_triplet, candidate_relation_definition_dict, answer) ==
    LET candidate_relations == keys(candidate_relation_definition_dict)
        choice_letters_list ==
            Append(choice_letters(candidate_relations),
                   none_option_letter(candidate_relations))
        extracted_letter == answer[2]
    IN  IF extracted_letter # None /\ In(extracted_letter, choice_letters_list)
           /\ Len(candidate_relations) > 0
        THEN LET selected_index == index(choice_letters_list, extracted_letter)
                 selected_relation ==
                     candidate_relations[IF selected_index + 1 > Len(candidate_relations)
                                         THEN Len(candidate_relations)
                                         ELSE selected_index + 1]
             IN  << <<"triplet", [query_triplet EXCEPT ![2] = selected_relation]>>,
                    <<"reasoning", answer[1]>>,
                    <<"confidence", answer[3]>>,
                    <<"raw_output", "verification_result">>,
                    <<"selected_option", extracted_letter>> >>
        ELSE Nil

\* SchemaCanonicalizer_CoT.llm_verify after the generation call returned:
\* answer = <<reasoning, extracted_letter, confidence>>.
llm_verify_cot(query_triplet, candidate_relation_definition_dict, answer) ==
    LET candidate_relations == keys(candidate_relation_definition_dict)
        choice_letters_list == choice_letters(candidate_relations)
        reasoning == answer[1]
        extracted_letter == answer[2]
        confidence == answer[3]
    IN  IF extracted_letter # None /\ In(extracted_letter, choice_letters_list)
        THEN LET selected_index == index(choice_letters_list, extracted_letter)
                 selected_relation == candidate_relations[selected_index + 1]
             IN  << <<"triplet", [query_triplet EXCEPT ![2] = selected_relation]>>,
                    <<"reasoning", reasoning>>,
                    <<"confidence", confidence>>,
                    <<"raw_output", "verification_result">>,
                    <<"selected_option", extracted_letter>> >>
        ELSE Nil

\* Mutant of llm_verify: the "None of the above" letter is accepted and
\* selects the last candidate.
llm_verify_none_selects(query_triplet, candidate_relation_definition_dict, extracted_letter) ==
    LET candidate_relations == keys(candidate_relation_definition_dict)
        choice_letters_list ==
            Append(choice_letters(candidate_relations),
                   none_option_letter(candidate_relations))
    IN  IF In(extracted_letter, choice_letters_list) /\ Len(candidate_relations) > 0
        THEN LET selected_index == index(choice_letters_list, extracted_letter)
             IN  [query_triplet EXCEPT ![2] =
                     candidate_relations[IF selected_index + 1 > Len(candidate_relations)
                                         THEN Len(candidate_relations)
                                         ELSE selected_index + 1]]
        ELSE Nil

\* Mutant of llm_verify: the selected candidate's definition is written into
\* the triplet instead of its name.
llm_verify_selects_definition(query_triplet, candidate_relation_definition_dict, extracted_letter) ==
    LET candidate_relations == keys(candidate_relation_definition_dict)
        candidate_relation_descriptions == values(candidate_relation_definition_dict)
        choice_letters_list == choice_letters(candidate_relations)
    IN  IF In(extracted_letter, choice_letters_list)
        THEN LET selected_index == index(choice_letters_list, extracted_letter)
             IN  [query_triplet EXCEPT
                     ![2] = candidate_relation_descriptions[selected_index + 1]]
        ELSE Nil

\* SchemaCanonicalizer.llm_verify after the generation call returned:
\* extracted_letter is what extract_option_letter returned.
llm_verify(query_triplet, candidate_relation_definition_dict, extracted_letter) ==
    LET candidate_relations == keys(candidate_relation_definition_dict)
        choice_letters_list == choice_letters(candidate_relations)
    IN  IF In(extracted_letter, choice_letters_list)
        THEN LET selected_index == index(choice_letters_list, extracted_letter)
                 selected_relation == candidate_relations[selected_index + 1]
             IN  [query_triplet EXCEPT ![2] = selected_relation]
        ELSE Nil

(***************************************************************************)
(* canonicalize.  env is what the environment contributes to one call:     *)
(*   env.order   the value np.argsort(-scores) returns (if retrieval runs) *)
(*   env.answer  what the answer extractor returns on the model output     *)
(*   env.fail    the capability call that raises, or "none":               *)
(*               "encode_query", "generate", "encode_enrich"               *)
(* The outcome of a call is a record:                                      *)
(*   exc                   None, or the name of the exception raised       *)
(*   schema_dict, schema_embedding_dict   the instance state afterwards    *)
(*   ret                   <<triplet or Nil, info>>, Nil when raised       *)
(*   states                the states of the call's state machine visited  *)
(*   capability_calls      the capability invocations made, in order       *)
(*   candidates            <<candidate_relations, candidate_scores>>       *)
(*   answer                <<env.answer>> if the extractor ran, else <<>>  *)
(***************************************************************************)

\* Mutant of already_canonical: `open_relation in self.schema_dict.values()'.
already_canonical_values(schema, open_relation) ==
    \E i \in 1..Len(schema) : schema[i][2] = open_relation

\* `if open_relation in self.schema_dict'
already_canonical(schema, open_relation) == Has(schema, open_relation)

\* Mutant of already_canonical_info_cot: the failure defaults are returned.
already_canonical_info_cot_zero ==
    << <<"candidates", <<>>>>, <<"reasoning", "">>, <<"confidence", 0>> >>

\* The info returned on the already-canonical path (CoT variant).
already_canonical_info_cot ==
    << <<"candidates", <<>>>>, <<"reasoning", "">>, <<"confidence", 10>> >>

\* The info returned on the already-canonical path (plain variant): `{}'.
already_canonical_info == <<>>

\* Retrieval as invoked by canonicalize (default top_k).
\* Result: [exc, candidate_relations, candidate_scores, capability_calls].
retrieval_result(exc, r) ==
    [exc |-> exc,
     candidate_relations |-> IF exc = None THEN r[1] ELSE <<>>,
     candidate_scores |-> IF exc = None THEN r[2] ELSE <<>>,
     capability_calls |-> <<"encode">>]

retrieval_step(sts, schema, emb, query_relation_definition, env) ==
    IF env.fail = "encode_query"
    THEN retrieval_result("UpstreamError", <<<<>>, <<>>>>)
    ELSE IF retrieve_raises(schema, emb, TopKDefault, env.order) # None
    THEN retrieval_result(retrieve_raises(schema, emb, TopKDefault, env.order),
                          <<<<>>, <<>>>>)
    ELSE retrieval_result(None,
             retrieve_similar_relations(schema, emb, sts,
                 query_relation_definition, TopKDefault, env.order))

\* The enrichment branch: `self.schema_dict[open_relation] = ...', the
\* embedding call, `self.schema_embedding_dict[open_relation] = embedding'.
\* Result: [exc, schema_dict, schema_embedding_dict, capability_calls].
enrichment(sts, schema, emb, open_relation, defs, env) ==
    IF ~Has(defs, open_relation)
    THEN [exc |-> "KeyError", schema_dict |-> schema,
          schema_embedding_dict |-> emb, capability_calls |-> <<>>]
    ELSE IF env.fail = "encode_enrich"
    THEN [exc |-> "UpstreamError",
          schema_dict |-> SetItem(schema, open_relation, Get(defs, open_relation)),
          schema_embedding_dict |-> emb,
          capability_calls |-> <<"encode">>]
    ELSE [exc |-> None,
          schema_dict |-> SetItem(schema, open_relation, Get(defs, open_relation)),
          schema_embedding_dict |->
              SetItem(emb, open_relation,
                      query_encode(sts, Get(defs, open_relation))),
          capability_calls |-> <<"encode">>]

Raised(exc, schema, emb, states, capability_calls, candidates, answer) ==
    [exc |-> exc, schema_dict |-> schema, schema_embedding_dict |-> emb,
     ret |-> Nil, states |-> states, capability_calls |-> capability_calls,
     candidates |-> candidates, answer |-> answer]

Returned(triplet, info, schema, emb, states, capability_calls, candidates, answer) ==
    [exc |-> None, schema_dict |-> schema, schema_embedding_dict |-> emb,
     ret |-> <<triplet, info>>, states |-> states,
     capability_calls |-> capability_calls,
     candidates |-> candidates, answer |-> answer]

\* Mutant of verification_step: a failed generation call is retried once
\* and the second call's output is used.
verification_step_retry(v, open_triplet, env, rt) ==
    IF rt.exc # None
    THEN [exc |-> rt.exc, states |-> <<"Retrieving">>,
          capability_calls |-> rt.capability_calls,
          candidate_relations |-> rt.candidate_relations,
          candidate_scores |-> rt.candidate_scores,
          answer |-> <<>>, verify_result |-> Nil]
    ELSE [exc |-> None, states |-> <<"Retrieving", "Verifying">>,
          capability_calls |->
              IF env.fail = "generate" THEN <<"encode", "generate", "generate">>
              ELSE <<"encode", "generate">>,
          candidate_relations |-> rt.candidate_relations,
          candidate_scores |-> rt.candidate_scores,
          answer |-> <<env.answer>>,
          verify_result |->
              IF v = "cot"
              THEN llm_verify_cot(open_triplet, rt.candidate_relations, env.answer)
              ELSE llm_verify(open_triplet, rt.candidate_relations, env.answer)]

\* The verification step of canonicalize once retrieval is done (rt is the
\* result of retrieval_step): the generation call and llm_verify's mapping
\* of the extracted letter.
\* Result: [exc, states, capability_calls, candidate_relations,
\*          candidate_scores, answer, verify_result].
verification_step(v, open_triplet, env, rt) ==
    IF rt.exc # None
    THEN [exc |-> rt.exc, states |-> <<"Retrieving">>,
          capability_calls |-> rt.capability_calls,
          candidate_relations |-> rt.candidate_relations,
          candidate_scores |-> rt.candidate_scores,
          answer |-> <<>>, verify_result |-> Nil]
    ELSE IF env.fail = "generate"
    THEN [exc |-> "UpstreamError", states |-> <<"Retrieving", "Verifying">>,
          capability_calls |-> <<"encode", "generate">>,
          candidate_relations |-> rt.candidate_relations,
          candidate_scores |-> rt.candidate_scores,
          answer |-> <<>>, verify_result |-> Nil]
    ELSE [exc |-> None, states |-> <<"Retrieving", "Verifying">>,
          capability_calls |-> <<"encode", "generate">>,
          candidate_relations |-> rt.candidate_relations,
          candidate_scores |-> rt.candidate_scores,
          answer |-> <<env.answer>>,
          verify_result |->
              IF v = "cot"
              THEN llm_verify_cot(open_triplet, rt.candidate_relations, env.answer)
              ELSE llm_verify(open_triplet, rt.candidate_relations, env.answer)]

\* Mutant of verification_skipped: the verifier is asked although there is
\* nothing to compare with.
verification_skipped_verifies(state) ==
    [exc |-> None, states |-> <<state>>, capability_calls |-> <<"generate">>,
     candidate_relations |-> <<>>, candidate_scores |-> <<>>,
     answer |-> <<>>, verify_result |-> Nil]

\* A branch of canonicalize that runs neither retrieval nor verification.
verification_skipped(state) ==
    [exc |-> None, states |-> <<state>>, capability_calls |-> <<>>,
     candidate_relations |-> <<>>, candidate_scores |-> <<>>,
     answer |-> <<>>, verify_result |-> Nil]

\* Mutant of verification_stage: no `len(self.schema_dict) != 0' check.
verification_stage_no_empty_check(v, sts, schema, emb, open_triplet, defs, env) ==
    IF ~Has(defs, open_triplet[2])
    THEN verification_skipped("DefinitionMissing")
    ELSE verification_step(v, open_triplet, env,
             retrieval_step(sts, schema, emb, Get(defs, open_triplet[2]), env))

\* The part of canonicalize before `if verify_result is not None' (CoT) /
\* `if canonicalized_triplet is None' (plain): the same in both variants
\* but for the llm_verify called.
verification_stage(v, sts, schema, emb, open_triplet, defs, env) ==
    IF Len(schema) # 0
    THEN IF ~Has(defs, open_triplet[2])
         THEN verification_skipped("DefinitionMissing")
         ELSE verification_step(v, open_triplet, env,
                  retrieval_step(sts, schema, emb, Get(defs, open_triplet[2]), env))
    ELSE verification_skipped("SchemaEmpty")

\* The states visited when no candidate was selected.
unresolved_states(states) ==
    IF states = <<"Retrieving", "Verifying">>
    THEN Append(states, "Unresolved") ELSE states

\* result_info of SchemaCanonicalizer_CoT.canonicalize
result_info_cot(candidate_relations, candidate_scores, reasoning, confidence) ==
    << <<"candidates", zip(keys(candidate_relations), candidate_scores)>>,
       <<"reasoning", reasoning>>,
       <<"confidence", confidence>> >>

\* The info SchemaCanonicalizer.canonicalize returns:
\* dict(zip(candidate_relations, candidate_scores))
result_info(candidate_relations, candidate_scores) ==
    zip(keys(candidate_relations), candidate_scores)

\* The end of a call that enriches (e is the result of enrichment): the
\* original triplet is returned with `info', or the exception propagates.
enriched_outcome(open_triplet, info, vs, e) ==
    IF e.exc # None
    THEN Raised(e.exc, e.schema_dict, e.schema_embedding_dict,
                Append(unresolved_states(vs.states), "Enriching"),
                vs.capability_calls \o e.capability_calls,
                <<vs.candidate_relations, vs.candidate_scores>>, vs.answer)
    ELSE Returned(open_triplet, info, e.schema_dict, e.schema_embedding_dict,
                  Append(unresolved_states(vs.states), "Enriching"),
                  vs.capability_calls \o e.capability_calls,
                  <<vs.candidate_relations, vs.candidate_scores>>, vs.answer)

\* SchemaCanonicalizer_CoT.canonicalize from `if verify_result is not None'
\* on (vs is the result of verification_stage).
canonicalize_cot_finish(sts, schema, emb, open_triplet, defs, enrich, env, vs) ==
    IF vs.exc # None
    THEN Raised(vs.exc, schema, emb, vs.states, vs.capability_calls,
                <<vs.candidate_relations, vs.candidate_scores>>, vs.answer)
    ELSE IF vs.verify_result # Nil
    THEN Returned(Get(vs.verify_result, "triplet"),
                  result_info_cot(vs.candidate_relations, vs.candidate_scores,
                                  Get(vs.verify_result, "reasoning"),
                                  Get(vs.verify_result, "confidence")),
                  schema, emb, Append(vs.states, "Resolved"),
                  vs.capability_calls,
                  <<vs.candidate_relations, vs.candidate_scores>>, vs.answer)
    ELSE IF enrich
    THEN enriched_outcome(open_triplet,
             result_info_cot(vs.candidate_relations, vs.candidate_scores, "", 0),
             vs, enrichment(sts, schema, emb, open_triplet[2], defs, env))
    ELSE Returned(Nil,
                  result_info_cot(vs.candidate_relations, vs.candidate_scores, "", 0),
                  schema, emb, unresolved_states(vs.states), vs.capability_calls,
                  <<vs.candidate_relations, vs.candidate_scores>>, vs.answer)

\* SchemaCanonicalizer_CoT.canonicalize
canonicalize_cot(sts, schema, emb, open_triplet, defs, enrich, env) ==
    IF already_canonical(schema, open_triplet[2])
    THEN Returned(open_triplet, already_canonical_info_cot, schema, emb,
                  <<"AlreadyCanonical">>, <<>>, <<<<>>, <<>>>>, <<>>)
    ELSE canonicalize_cot_finish(sts, schema, emb, open_triplet, defs, enrich, env,
             verification_stage("cot", sts, schema, emb, open_triplet, defs, env))

\* SchemaCanonicalizer.canonicalize from `if canonicalized_triplet is None'
\* on (vs is the result of verification_stage; vs.verify_result is
\* canonicalized_triplet).
canonicalize_finish(sts, schema, emb, open_triplet, defs, enrich, env, vs) ==
    IF vs.exc # None
    THEN Raised(vs.exc, schema, emb, vs.states, vs.capability_calls,
                <<vs.candidate_relations, vs.candidate_scores>>, vs.answer)
    ELSE IF vs.verify_result # Nil
    THEN Returned(vs.verify_result,
                  result_info(vs.candidate_relations, vs.candidate_scores),
                  schema, emb, Append(vs.states, "Resolved"),
                  vs.capability_calls,
                  <<vs.candidate_relations, vs.candidate_scores>>, vs.answer)
    ELSE IF enrich
    THEN enriched_outcome(open_triplet,
             result_info(vs.candidate_relations, vs.candidate_scores),
             vs, enrichment(sts, schema, emb, open_triplet[2], defs, env))
    ELSE Returned(Nil, result_info(vs.candidate_relations, vs.candidate_scores),
                  schema, emb, unresolved_states(vs.states), vs.capability_calls,
                  <<vs.candidate_relations, vs.candidate_scores>>, vs.answer)

\* SchemaCanonicalizer.canonicalize
canonicalize(sts, schema, emb, open_triplet, defs, enrich, env) ==
    IF already_canonical(schema, open_triplet[2])
    THEN Returned(open_triplet, already_canonical_info, schema, emb,
                  <<"AlreadyCanonical">>, <<>>, <<<<>>, <<>>>>, <<>>)
    ELSE canonicalize_finish(sts, schema, emb, open_triplet, defs, enrich, env,
             verification_stage("plain", sts, schema, emb, open_triplet, defs, env))

\* canonicalize of the class selected by v.
canonicalize_of(v, sts, schema, emb, open_triplet, defs, enrich, env) ==
    IF v = "cot"
    THEN canonicalize_cot(sts, schema, emb, open_triplet, defs, enrich, env)
    ELSE canonicalize(sts, schema, emb, open_triplet, defs, enrich, env)

(***************************************************************************)
(* Inputs.                                                                 *)
(***************************************************************************)
\* Python dicts of at most n entries with keys in ks and values in vs.
Dicts(ks, vs, n) ==
    UNION {{d \in [1..m -> ks \X vs] :
               \A i, j \in 1..m : i # j => d[i][1] # d[j][1]} : m \in 0..n}

Triplets == {<<"s", r, "o">> : r \in Rels}
DefDicts == Dicts(Rels, Defs, MaxDictSize)
InitSchemas == Dicts(Rels, Defs, MaxInitSchema)
ExtractLetters == {AsciiFrom64[i + 1] : i \in 1..(NumRels + 1)}
Reasonings == {"because"}

Answers(v) ==
    IF v = "cot" THEN extract_cot_answer_results(ExtractLetters, Reasonings)
    ELSE extract_option_letter_results(ExtractLetters)

\* Model outputs: the texts made of at most n of the given pieces.
RECURSIVE concat(_)
concat(parts) ==
    IF Len(parts) = 0 THEN <<>> ELSE parts[1] \o concat(Tail(parts))

TextsOf(pieces, n) ==
    UNION {{concat([i \in 1..m |-> pieces[f[i]]]) : f \in [1..m -> 1..Len(pieces)]} :
              m \in 0..n}

\* Pieces of short answers: a lowercase option letter, an uppercase letter
\* past F, a two-letter word, a space, and the words of the patterns.
OptionPieces ==
    << <<"b">>, <<"G">>, <<"b", "x">>, <<" ">>, WordOption,
       WordAnswer \o <<":">>, <<"A", "N", "S", "W", "E", "R", ":">>,
       WordSuitable >>

\* Pieces of chain-of-thought outputs: the four answer markers with a
\* letter, a bare letter, a word without option letter, space and newline.
AnswerPieces ==
    << <<"f", "i", "n", "a", "l", " ", "a", "n", "s", "w", "e", "r", ":", " ", "c">>,
       WordFinalAnswerZh \o <<FullwidthColon, "D">>,
       WordAnswer \o <<":", " ", "b">>,
       WordAnswerZh \o <<":", "A">>,
       <<"G">>, <<"x", "y">>, <<" ">>, <<"\n">> >>

OptionTexts == TextsOf(OptionPieces, MaxOptionPieces)
AnswerTexts == TextsOf(AnswerPieces, MaxAnswerPieces)

\* The values np.argsort can return in a canonicalize call: retrieval runs
\* only past the already-canonical, empty-schema and missing-definition checks.
canonicalize_orders(sts, schema, emb, open_triplet, defs) ==
    IF ~already_canonical(schema, open_triplet[2]) /\ Len(schema) # 0
         /\ Has(defs, open_triplet[2])
    THEN retrieve_orders(emb, sts, Get(defs, open_triplet[2]))
    ELSE {<<>>}

\* What the environment can contribute to a canonicalize call.  Only the
\* contributions the call can consume are enumerated: past the
\* already-canonical, empty-schema and missing-definition checks the call
\* embeds the query, sorts the scores and runs the verifier; with enrich set
\* it may embed the new relation.
canonicalize_envs(v, sts, schema, emb, open_triplet, defs, enrich) ==
    LET quiet == [order |-> <<>>, answer |-> CHOOSE a \in Answers(v) : TRUE,
                  fail |-> "none"]
        enrich_fails == IF enrich THEN {"none", "encode_enrich"} ELSE {"none"}
    IN  IF already_canonical(schema, open_triplet[2]) THEN {quiet}
        ELSE IF Len(schema) # 0 /\ Has(defs, open_triplet[2])
        THEN LET orders == canonicalize_orders(sts, schema, emb, open_triplet, defs)
             IN  {[quiet EXCEPT !.fail = "encode_query"]}
                 \cup {[quiet EXCEPT !.order = o, !.fail = "generate"] : o \in orders}
                 \cup {[order |-> o, answer |-> a, fail |-> f] :
                          o \in orders, a \in Answers(v), f \in enrich_fails}
        ELSE {[quiet EXCEPT !.fail = f] : f \in enrich_fails}

\* The callers of the specifications in which one caller makes one call at
\* a time: no concurrent threads.
NoThreads == <<>>

NoCall ==
    [op |-> "none", open_triplet |-> Nil, defs |-> <<>>, shared_defs |-> FALSE,
     enrich |-> FALSE, definition |-> None, top_k |-> 0, text |-> <<>>,
     config |-> Nil]

\* open_triplet and defs are the caller's list and dict as they are after
\* a canonicalize call; choices are the option labels of the prompt that a
\* direct llm_verify call built.
NoResult ==
    [exc |-> None, ret |-> Nil, states |-> <<>>, capability_calls |-> <<>>,
     candidates |-> <<<<>>, <<>>>>, answer |-> <<>>,
     open_triplet |-> Nil, defs |-> <<>>, choices |-> <<>>]

Observed(out) ==
    [NoResult EXCEPT !.exc = out.exc, !.ret = out.ret, !.states = out.states,
                     !.capability_calls = out.capability_calls,
                     !.candidates = out.candidates, !.answer = out.answer]

(***************************************************************************)
(* __init__.  The verifier configuration is the three attributes           *)
(* verifier_model, verifier_tokenizer, verifier_openai_model; the schema   *)
(* is the caller's dict; every definition is embedded with the default     *)
(* prompt.                                                                 *)
(***************************************************************************)
Verifier(verify_model, verify_tokenizer, verify_openai_model) ==
    [verifier_model |-> verify_model, verifier_tokenizer |-> verify_tokenizer,
     verifier_openai_model |-> verify_openai_model]
\* The attributes before __init__ has assigned them.
NoVerifier == Verifier(None, None, None)
\* An instance configured with the remote backend alone.
RemoteVerifier == Verifier(None, None, "given")

\* Mutant of configuration_valid: the tokenizer is not required.
configuration_valid_without_tokenizer(verify_model, verify_tokenizer, verify_openai_model) ==
    verify_openai_model # None \/ verify_model # None

\* The condition of the assert statement that opens __init__.
configuration_valid(verify_model, verify_tokenizer, verify_openai_model) ==
    verify_openai_model # None
        \/ (verify_model # None /\ verify_tokenizer # None)

init_embedding(target_schema_dict) ==
    [i \in 1..Len(target_schema_dict) |->
        <<target_schema_dict[i][1], encode(target_schema_dict[i][2], None)>>]

\* canonicalize reads the verifier configuration only to choose the backend
\* of the generation call, which is one capability here; the instances
\* studied under Spec are configured with the remote backend.
Init ==
    /\ variant \in {"cot", "plain"}
    /\ sts_query \in BOOLEAN
    /\ verifier = RemoteVerifier
    /\ schema_dict \in InitSchemas
    /\ schema_embedding_dict = init_embedding(schema_dict)
    /\ enriched = {}
    /\ ncalls = 0
    /\ pc = "idle"
    /\ call = NoCall
    /\ result = NoResult
    /\ serialized = TRUE
    /\ threads = NoThreads

(***************************************************************************)
(* One call of canonicalize, from the caller's call to the return or the   *)
(* exception.                                                              *)
(***************************************************************************)
\* The definition dictionaries a caller passes: a dictionary of its own, or
\* the very dictionary the instance was constructed with, which
\* `self.schema_dict = target_schema_dict' made the instance's schema
\* mapping (shared_defs).
CallerDefs(schema) ==
    {<<defs, FALSE>> : defs \in DefDicts} \cup {<<schema, TRUE>>}

\* Mutant of caller_triplet_after: llm_verify writes the selected relation
\* into query_triplet itself (`canonicalized_triplet = query_triplet').
caller_triplet_after_no_copy(open_triplet, out) ==
    IF out.exc = None /\ out.states[Len(out.states)] = "Resolved"
    THEN out.ret[1] ELSE open_triplet

\* The caller's list after the call.  The one list canonicalize writes is
\* llm_verify's `canonicalized_triplet', which copy.deepcopy made a list of
\* its own; on the other paths the caller's list is returned unwritten.
caller_triplet_after(open_triplet, out) == open_triplet

\* The caller's definition dictionary after the call.  The one dict
\* canonicalize writes is self.schema_dict, which is the caller's
\* dictionary when the two are the same object.
caller_defs_after(defs, shared_defs, out) ==
    IF shared_defs THEN out.schema_dict ELSE defs

CanonicalizeEffect(open_triplet, defs, shared_defs, enrich, out) ==
    /\ schema_dict' = out.schema_dict
    /\ schema_embedding_dict' = out.schema_embedding_dict
    /\ enriched' = IF out.schema_dict # schema_dict
                   THEN enriched \cup {open_triplet[2]} ELSE enriched
    /\ call' = [NoCall EXCEPT !.op = "canonicalize",
                              !.open_triplet = open_triplet,
                              !.defs = defs, !.shared_defs = shared_defs,
                              !.enrich = enrich]
    /\ result' = [Observed(out) EXCEPT
                     !.open_triplet = caller_triplet_after(open_triplet, out),
                     !.defs = caller_defs_after(defs, shared_defs, out)]

Canonicalize ==
    /\ pc = "idle"
    /\ ncalls < MaxCalls
    /\ \E open_triplet \in Triplets, d \in CallerDefs(schema_dict),
          enrich \in BOOLEAN :
        \E env \in canonicalize_envs(variant, sts_query, schema_dict,
                       schema_embedding_dict, open_triplet, d[1], enrich) :
          CanonicalizeEffect(open_triplet, d[1], d[2], enrich,
              canonicalize_of(variant, sts_query, schema_dict,
                  schema_embedding_dict, open_triplet, d[1], enrich, env))
    /\ ncalls' = ncalls + 1
    /\ pc' = "returned"
    /\ UNCHANGED <<serialized, threads, variant, sts_query, verifier>>

\* What a returning retrieve_similar_relations call leaves to observe.
RetrieveReturned(r) ==
    [NoResult EXCEPT !.ret = r, !.capability_calls = <<"encode">>,
                     !.candidates = r]

(***************************************************************************)
(* One direct call of retrieve_similar_relations.                          *)
(***************************************************************************)
RetrieveSimilarRelations ==
    /\ pc = "idle"
    /\ ncalls < MaxCalls
    /\ \E definition \in Defs, top_k \in 1..MaxTopK,
          fail \in {"none", "encode_query"} :
        \E order \in IF fail = "none"
                     THEN retrieve_orders(schema_embedding_dict, sts_query, definition)
                     ELSE {<<>>} :
          /\ call' = [NoCall EXCEPT !.op = "retrieve_similar_relations",
                                    !.definition = definition,
                                    !.top_k = top_k]
          /\ result' =
               IF fail = "encode_query"
               THEN [NoResult EXCEPT !.exc = "UpstreamError",
                                     !.capability_calls = <<"encode">>]
               ELSE IF retrieve_raises(schema_dict, schema_embedding_dict,
                                       top_k, order) # None
               THEN [NoResult EXCEPT
                        !.exc = retrieve_raises(schema_dict,
                                    schema_embedding_dict, top_k, order),
                        !.capability_calls = <<"encode">>]
               ELSE RetrieveReturned(
                        retrieve_similar_relations(schema_dict,
                            schema_embedding_dict, sts_query, definition,
                            top_k, order))
    /\ ncalls' = ncalls + 1
    /\ pc' = "returned"
    /\ UNCHANGED <<serialized, threads, variant, sts_query, verifier, schema_dict, schema_embedding_dict,
                   enriched>>

(***************************************************************************)
(* The caller takes the returned value (or the exception) and goes on.     *)
(***************************************************************************)
Resume ==
    /\ pc = "returned"
    /\ pc' = "idle"
    /\ call' = NoCall
    /\ result' = NoResult
    /\ UNCHANGED <<serialized, threads, variant, sts_query, verifier, schema_dict, schema_embedding_dict,
                   enriched, ncalls>>

Next == Canonicalize \/ RetrieveSimilarRelations \/ Resume

Spec == Init /\ [][Next]_vars

(***************************************************************************)
(* The answer extractors called on their own: the instance state plays no  *)
(* part, the text is the input.                                            *)
(***************************************************************************)
InitExtract ==
    /\ variant \in {"cot", "plain"}
    /\ sts_query = FALSE
    /\ verifier = RemoteVerifier
    /\ schema_dict = <<>>
    /\ schema_embedding_dict = init_embedding(schema_dict)
    /\ enriched = {}
    /\ ncalls = 0
    /\ pc = "idle"
    /\ call = NoCall
    /\ result = NoResult
    /\ serialized = TRUE
    /\ threads = NoThreads

\* extract_option_letter(text) of the class selected by `variant'.
ExtractOptionLetter ==
    /\ pc = "idle"
    /\ \E text \in OptionTexts :
        /\ call' = [NoCall EXCEPT !.op = "extract_option_letter", !.text = text]
        /\ result' = [NoResult EXCEPT
                         !.ret = IF variant = "cot"
                                 THEN extract_option_letter_cot(text)
                                 ELSE extract_option_letter(text)]
    /\ pc' = "returned"
    /\ UNCHANGED <<serialized, threads, variant, sts_query, verifier, schema_dict, schema_embedding_dict,
                   enriched, ncalls>>

\* SchemaCanonicalizer_CoT.extract_cot_answer(cot_text)
ExtractCotAnswer ==
    /\ pc = "idle"
    /\ variant = "cot"
    /\ \E cot_text \in AnswerTexts :
        /\ call' = [NoCall EXCEPT !.op = "extract_cot_answer", !.text = cot_text]
        /\ result' = [NoResult EXCEPT !.ret = extract_cot_answer(cot_text)]
    /\ pc' = "returned"
    /\ UNCHANGED <<serialized, threads, variant, sts_query, verifier, schema_dict, schema_embedding_dict,
                   enriched, ncalls>>

NextExtract == ExtractOptionLetter \/ ExtractCotAnswer \/ Resume

SpecExtract == InitExtract /\ [][NextExtract]_vars

(***************************************************************************)
(* llm_verify called on its own with a candidate dictionary of the         *)
(* caller's.  The prompt lists one lettered option per candidate and the   *)
(* "None of the above" option; the generation call follows.                *)
(***************************************************************************)
\* A candidate dictionary of n relations.
Candidates(n) == [i \in 1..n |-> <<(LowerCase \o UpperCase)[i], DefNames[1]>>]

\* The letters a model output can yield: none, the first option, the
\* letters around the end of the alphabet.
VerifyLetters == {None, "A", "Z", "["}
VerifyAnswers(v) ==
    IF v = "cot"
    THEN {<<"because", l, IF l = None THEN 0 ELSE 10>> : l \in VerifyLetters}
    ELSE VerifyLetters

\* The option labels of `choices': f"{choice_letter}. ..." per candidate,
\* then the "None of the above" line.
choices_labels(candidate_relation_definition_dict) ==
    Append(choice_letters(keys(candidate_relation_definition_dict)),
           none_option_letter(keys(candidate_relation_definition_dict)))

LlmVerify ==
    /\ pc = "idle"
    /\ \E n \in 0..MaxCandidates, fail \in BOOLEAN :
        \E answer \in IF fail THEN {None} ELSE VerifyAnswers(variant) :
          /\ call' = [NoCall EXCEPT !.op = "llm_verify",
                                    !.open_triplet = <<"s", RelNames[1], "o">>,
                                    !.defs = Candidates(n)]
          /\ result' =
               [NoResult EXCEPT
                  !.choices = choices_labels(Candidates(n)),
                  !.capability_calls = <<"generate">>,
                  !.exc = IF fail THEN "UpstreamError" ELSE None,
                  !.answer = IF fail THEN <<>> ELSE <<answer>>,
                  !.ret = IF fail THEN Nil
                          ELSE IF variant = "cot"
                          THEN llm_verify_cot(<<"s", RelNames[1], "o">>,
                                              Candidates(n), answer)
                          ELSE llm_verify(<<"s", RelNames[1], "o">>,
                                          Candidates(n), answer)]
    /\ pc' = "returned"
    /\ UNCHANGED <<serialized, threads, variant, sts_query, verifier, schema_dict, schema_embedding_dict,
                   enriched, ncalls>>

NextVerify == LlmVerify \/ Resume

SpecVerify == InitExtract /\ [][NextVerify]_vars

(***************************************************************************)
(* A SchemaCanonicalizer_CoT instance constructed with an empty schema or   *)
(* with a schema of two relations.  Until canonicalize has been called     *)
(* once, extract_cot_answer is called on the model outputs.                *)
(***************************************************************************)
InitCot ==
    /\ variant = "cot"
    /\ sts_query = FALSE
    /\ verifier = RemoteVerifier
    /\ schema_dict \in {<<>>, << <<RelNames[1], DefNames[1]>>,
                                 <<RelNames[2], DefNames[2]>> >>}
    /\ schema_embedding_dict = init_embedding(schema_dict)
    /\ enriched = {}
    /\ ncalls = 0
    /\ pc = "idle"
    /\ call = NoCall
    /\ result = NoResult
    /\ serialized = TRUE
    /\ threads = NoThreads

\* The first canonicalize call on the instance.
CanonicalizeFirst == ncalls = 0 /\ Canonicalize

\* extract_cot_answer called before any canonicalize call.
ExtractCotAnswerFirst == ncalls = 0 /\ ExtractCotAnswer

NextCot == CanonicalizeFirst \/ ExtractCotAnswerFirst \/ Resume

SpecCot == InitCot /\ [][NextCot]_vars

(***************************************************************************)
(* Construction: SchemaCanonicalizer_CoT(...) / SchemaCanonicalizer(...).  *)
(* Before the call there is no instance (pc = "new"); the call either      *)
(* raises, and there is still none (pc = "failed"), or leaves the          *)
(* instance ready for calls (pc = "idle").                                 *)
(***************************************************************************)
VerifierArgs == {None, "given"}
Configs ==
    {[target_schema_dict |-> t, verify_model |-> m, verify_tokenizer |-> k,
      verify_openai_model |-> o, template_exists |-> e] :
        t \in InitSchemas, m \in VerifierArgs, k \in VerifierArgs,
        o \in VerifierArgs, e \in BOOLEAN}

InitConstruct ==
    /\ variant \in {"cot", "plain"}
    /\ sts_query \in BOOLEAN
    /\ verifier = NoVerifier
    /\ schema_dict = <<>>
    /\ schema_embedding_dict = <<>>
    /\ enriched = {}
    /\ ncalls = 0
    /\ pc = "new"
    /\ call = NoCall
    /\ result = NoResult
    /\ serialized = TRUE
    /\ threads = NoThreads

\* The exception __init__ raises for a configuration, or None: the assert
\* statement first, then (CoT variant) _load_cot_template.
construct_raises(v, config) ==
    IF ~configuration_valid(config.verify_model, config.verify_tokenizer,
                            config.verify_openai_model)
    THEN "AssertionError"
    ELSE IF v = "cot" /\ ~config.template_exists THEN "FileNotFoundError"
    ELSE None

Construct ==
    /\ pc = "new"
    /\ \E config \in Configs :
        /\ variant = "plain" => config.template_exists
        /\ call' = [NoCall EXCEPT !.op = "__init__", !.config = config]
        /\ IF construct_raises(variant, config) # None
           THEN /\ result' = [NoResult EXCEPT
                                 !.exc = construct_raises(variant, config)]
                /\ pc' = "failed"
                /\ UNCHANGED <<verifier, schema_dict, schema_embedding_dict>>
           ELSE /\ verifier' = Verifier(config.verify_model,
                                        config.verify_tokenizer,
                                        config.verify_openai_model)
                /\ schema_dict' = config.target_schema_dict
                /\ schema_embedding_dict' = init_embedding(config.target_schema_dict)
                /\ result' = [NoResult EXCEPT
                                 !.capability_calls =
                                     [i \in 1..Len(config.target_schema_dict) |->
                                         "encode"]]
                /\ pc' = "idle"
    /\ UNCHANGED <<serialized, threads, variant, sts_query, enriched, ncalls>>

NextConstruct == Construct

SpecConstruct == InitConstruct /\ [][NextConstruct]_vars

(***************************************************************************)
(* Concurrent callers.  The class takes no lock: two threads that call     *)
(* canonicalize on one instance run the statements of the method           *)
(* interleaved.  A step of a thread is one access to self.schema_dict or   *)
(* self.schema_embedding_dict together with the thread-local computation   *)
(* that follows it.  `serialized' tells whether the callers themselves     *)
(* make one call at a time.                                                *)
(*                                                                         *)
(* threads[t] holds the position of thread t in canonicalize and its       *)
(* locals: target_relation_list, the names and scores of the candidates    *)
(* to look up, candidate_relations, the embedding computed by the          *)
(* enrichment, the writes executed, the states visited, and the outcome.   *)
(***************************************************************************)
Threads == {"t1", "t2"}

IdleThread ==
    [pc |-> "idle", open_triplet |-> Nil, defs |-> <<>>, enrich |-> FALSE,
     target_relation_list |-> <<>>, names |-> <<>>,
     candidate_relations |-> <<>>, candidate_scores |-> <<>>,
     step |-> 0, embedding |-> <<>>, writes |-> <<>>, states |-> <<>>,
     exc |-> None, ret |-> Nil]

\* The schemas of the instances shared by the threads.
ConcurrentSchemas == {s \in InitSchemas : Len(s) <= 1}
\* The definition dictionaries a thread passes for the relation r: without
\* or with a definition of r.
ThreadDefs(r) == {<<>>} \cup {<< <<r, d>> >> : d \in Defs}
\* What the extractor returns on the model's output: the first option, or
\* no letter.
ThreadAnswers(v) ==
    IF v = "cot" THEN {<<"because", "A", 10>>, <<"because", None, 0>>}
    ELSE {"A", None}

InitConcurrent ==
    /\ variant \in {"cot", "plain"}
    /\ sts_query = FALSE
    /\ verifier = RemoteVerifier
    /\ schema_dict \in ConcurrentSchemas
    /\ schema_embedding_dict = init_embedding(schema_dict)
    /\ enriched = {}
    /\ ncalls = 0
    /\ pc = "idle"
    /\ call = NoCall
    /\ result = NoResult
    /\ serialized \in BOOLEAN
    /\ threads = [t \in Threads |-> IdleThread]

InCall(th) == th.pc \notin {"idle", "returned", "raised"}

\* Mutant of may_call: the callers never wait for each other.
may_call_always(t) == TRUE

\* Whether thread t may enter canonicalize: always, unless the callers
\* serialize their calls and another call is in progress.
may_call(t) ==
    serialized => \A u \in Threads \ {t} : ~InCall(threads[u])

\* The info canonicalize builds from its locals (either variant).
thread_info(v, th, reasoning, confidence) ==
    IF v = "cot"
    THEN result_info_cot(th.candidate_relations, th.candidate_scores,
                         reasoning, confidence)
    ELSE result_info(th.candidate_relations, th.candidate_scores)

ThreadReturns(th, state, triplet, info) ==
    [th EXCEPT !.pc = "returned", !.states = Append(@, state),
               !.ret = <<triplet, info>>]

ThreadRaises(th, exc) == [th EXCEPT !.pc = "raised", !.exc = exc]

\* `if verify_result is not None: ... else: ... if enrich:' with
\* verify_result None: the thread goes on to enrich, or returns None.
thread_unresolved(v, th) ==
    IF th.enrich
    THEN [th EXCEPT !.pc = "enrich", !.step = 1]
    ELSE [th EXCEPT !.pc = "returned", !.ret = <<Nil, thread_info(v, th, "", 0)>>]

\* The end of llm_verify and the branch on its result.
thread_verified(v, th, verify_result) ==
    IF verify_result = Nil
    THEN thread_unresolved(v, [th EXCEPT !.states = Append(@, "Unresolved")])
    ELSE IF v = "cot"
    THEN ThreadReturns(th, "Resolved", Get(verify_result, "triplet"),
             thread_info(v, th, Get(verify_result, "reasoning"),
                         Get(verify_result, "confidence")))
    ELSE ThreadReturns(th, "Resolved", verify_result, thread_info(v, th, "", 0))

\* canonicalize is called.
Call(t) ==
    /\ threads[t].pc = "idle"
    /\ may_call(t)
    /\ \E open_triplet \in Triplets, enrich \in BOOLEAN :
        \E defs \in ThreadDefs(open_triplet[2]) :
          threads' = [threads EXCEPT
                         ![t] = [IdleThread EXCEPT !.pc = "check",
                                                   !.open_triplet = open_triplet,
                                                   !.defs = defs,
                                                   !.enrich = enrich]]
    /\ ncalls' = ncalls + 1
    /\ UNCHANGED <<variant, sts_query, verifier, schema_dict,
                   schema_embedding_dict, enriched, pc, call, result, serialized>>

\* `if open_relation in self.schema_dict: return open_triplet, ...'
CheckCanonical(t) ==
    /\ threads[t].pc = "check"
    /\ threads' = [threads EXCEPT ![t] =
          IF already_canonical(schema_dict, @.open_triplet[2])
          THEN ThreadReturns(@, "AlreadyCanonical", @.open_triplet,
                   IF variant = "cot" THEN already_canonical_info_cot
                   ELSE already_canonical_info)
          ELSE [@ EXCEPT !.pc = "branch"]]
    /\ UNCHANGED <<variant, sts_query, verifier, schema_dict,
                   schema_embedding_dict, enriched, ncalls, pc, call, result,
                   serialized>>

\* `if len(self.schema_dict) != 0: if open_relation not in
\* open_relation_definition_dict: ... else: ...', up to the call of
\* retrieve_similar_relations.
CheckSchema(t) ==
    /\ threads[t].pc = "branch"
    /\ threads' = [threads EXCEPT ![t] =
          IF Len(schema_dict) = 0
          THEN thread_unresolved(variant,
                   [@ EXCEPT !.states = Append(@, "SchemaEmpty")])
          ELSE IF ~Has(@.defs, @.open_triplet[2])
          THEN thread_unresolved(variant,
                   [@ EXCEPT !.states = Append(@, "DefinitionMissing")])
          ELSE [@ EXCEPT !.pc = "keys", !.states = Append(@, "Retrieving")]]
    /\ UNCHANGED <<variant, sts_query, verifier, schema_dict,
                   schema_embedding_dict, enriched, ncalls, pc, call, result,
                   serialized>>

\* target_relation_list = list(self.schema_embedding_dict.keys())
ReadKeys(t) ==
    /\ threads[t].pc = "keys"
    /\ threads' = [threads EXCEPT ![t] =
          [@ EXCEPT !.pc = "values",
                    !.target_relation_list = keys(schema_embedding_dict)]]
    /\ UNCHANGED <<variant, sts_query, verifier, schema_dict,
                   schema_embedding_dict, enriched, ncalls, pc, call, result,
                   serialized>>

\* The names and scores of the candidates, given the embeddings read and
\* the value np.argsort(-scores) returned: target_relation_list[idx] raises
\* IndexError when the cache has grown since the keys were read.
thread_scored(th, scores, highest_score_indices) ==
    IF \E i \in 1..Len(slice_to(highest_score_indices, TopKDefault)) :
           highest_score_indices[i] > Len(th.target_relation_list)
    THEN ThreadRaises(th, "IndexError")
    ELSE [th EXCEPT
            !.pc = "lookup",
            !.names = [i \in 1..Len(slice_to(highest_score_indices, TopKDefault)) |->
                          th.target_relation_list[highest_score_indices[i]]],
            !.candidate_scores =
                [i \in 1..Len(slice_to(highest_score_indices, TopKDefault)) |->
                    scores[highest_score_indices[i]]]]

\* target_relation_embedding_list = list(self.schema_embedding_dict.values()),
\* then the embedding of the query, the scores and np.argsort.
ReadValues(t) ==
    /\ threads[t].pc = "values"
    /\ \E fail \in BOOLEAN :
        \E order \in IF fail \/ Len(schema_embedding_dict) = 0 THEN {<<>>}
                     ELSE retrieve_orders(schema_embedding_dict, sts_query,
                              Get(threads[t].defs, threads[t].open_triplet[2])) :
          threads' = [threads EXCEPT ![t] =
              IF fail THEN ThreadRaises(@, "UpstreamError")
              ELSE IF Len(schema_embedding_dict) = 0
              THEN ThreadRaises(@, "ValueError")
              ELSE thread_scored(@,
                       retrieve_scores(schema_embedding_dict, sts_query,
                           Get(@.defs, @.open_triplet[2])),
                       order)]
    /\ UNCHANGED <<variant, sts_query, verifier, schema_dict,
                   schema_embedding_dict, enriched, ncalls, pc, call, result,
                   serialized>>

\* The dict the comprehension of retrieve_similar_relations builds.
looked_up(schema, names) == [i \in 1..Len(names) |-> <<names[i], Get(schema, names[i])>>]

\* `self.schema_dict[target_relation_list[idx]] for idx in ...', then
\* llm_verify: the generation call, the extractor, the mapping of the
\* letter, and the branch on the result.
LookupAndVerify(t) ==
    /\ threads[t].pc = "lookup"
    /\ LET th == threads[t]
           verifying == [th EXCEPT
                            !.states = Append(th.states, "Verifying"),
                            !.candidate_relations = looked_up(schema_dict, th.names)]
       IN  \E fail \in BOOLEAN :
             \E answer \in IF fail THEN {None} ELSE ThreadAnswers(variant) :
               threads' = [threads EXCEPT ![t] =
                   IF \E i \in 1..Len(th.names) : ~Has(schema_dict, th.names[i])
                   THEN ThreadRaises(th, "KeyError")
                   ELSE IF fail
                   THEN ThreadRaises(verifying, "UpstreamError")
                   ELSE thread_verified(variant, verifying,
                            IF variant = "cot"
                            THEN llm_verify_cot(th.open_triplet,
                                     verifying.candidate_relations, answer)
                            ELSE llm_verify(th.open_triplet,
                                     verifying.candidate_relations, answer))]
    /\ UNCHANGED <<variant, sts_query, verifier, schema_dict,
                   schema_embedding_dict, enriched, ncalls, pc, call, result,
                   serialized>>

\* Mutant of enrichment_steps: the embedding is computed and cached before
\* the schema mapping is written.
enrichment_steps_cache_first == <<"encode", "schema_embedding_dict", "schema_dict">>

\* The statements of the enrichment branch, in program order.
enrichment_steps == <<"schema_dict", "encode", "schema_embedding_dict">>

\* A thread past a statement of the enrichment branch: at the next one, or
\* returning the original triplet after the last.
thread_enriched(v, th) ==
    IF th.step < Len(enrichment_steps)
    THEN [th EXCEPT !.step = @ + 1]
    ELSE ThreadReturns(th, "Enriching", th.open_triplet, thread_info(v, th, "", 0))

\* One statement of the enrichment branch:
\*   self.schema_dict[open_relation] = open_relation_definition_dict[open_relation]
\*   embedding = self.embedder.encode(...)
\*   self.schema_embedding_dict[open_relation] = embedding
EnrichStep(t) ==
    /\ threads[t].pc = "enrich"
    /\ LET th == threads[t]
           statement == enrichment_steps[th.step]
           open_relation == th.open_triplet[2]
       IN  \E fail \in IF statement = "encode" THEN BOOLEAN ELSE {FALSE} :
             IF statement # "schema_embedding_dict" /\ ~Has(th.defs, open_relation)
             THEN /\ threads' = [threads EXCEPT ![t] = ThreadRaises(th, "KeyError")]
                  /\ UNCHANGED <<schema_dict, schema_embedding_dict>>
             ELSE IF statement = "schema_dict"
             THEN /\ schema_dict' =
                        SetItem(schema_dict, open_relation, Get(th.defs, open_relation))
                  /\ threads' = [threads EXCEPT ![t] =
                        thread_enriched(variant,
                            [th EXCEPT !.writes = Append(@, "schema_dict")])]
                  /\ UNCHANGED schema_embedding_dict
             ELSE IF statement = "encode"
             THEN /\ threads' = [threads EXCEPT ![t] =
                        IF fail THEN ThreadRaises(th, "UpstreamError")
                        ELSE thread_enriched(variant,
                                 [th EXCEPT !.embedding =
                                     query_encode(sts_query,
                                         Get(th.defs, open_relation))])]
                  /\ UNCHANGED <<schema_dict, schema_embedding_dict>>
             ELSE /\ schema_embedding_dict' =
                        SetItem(schema_embedding_dict, open_relation, th.embedding)
                  /\ threads' = [threads EXCEPT ![t] =
                        thread_enriched(variant,
                            [th EXCEPT !.writes = Append(@, "schema_embedding_dict")])]
                  /\ UNCHANGED schema_dict
    /\ UNCHANGED <<variant, sts_query, verifier, enriched, ncalls, pc, call,
                   result, serialized>>

NextConcurrent ==
    \E t \in Threads :
        \/ Call(t)
        \/ CheckCanonical(t)
        \/ CheckSchema(t)
        \/ ReadKeys(t)
        \/ ReadValues(t)
        \/ LookupAndVerify(t)
        \/ EnrichStep(t)

SpecConcurrent == InitConcurrent /\ [][NextConcurrent]_vars

(***************************************************************************)
(* Vocabulary of the properties.                                           *)
(***************************************************************************)
\* A canonicalize call has just returned or raised.
CanonicalizeDone == pc = "returned" /\ call.op = "canonicalize"
\* The step is a canonicalize call.
CanonicalizeStep == pc = "idle" /\ pc' = "returned" /\ call'.op = "canonicalize"
RetTriplet == result.ret[1]
RetInfo == result.ret[2]
\* The candidate mapping held by the diagnostics: the 'candidates' entry in
\* the CoT variant, the diagnostics themselves in the plain variant.
InfoCandidates(v, info) == IF v = "cot" THEN Get(info, "candidates") ELSE info
\* The extractor ran in the call, and this is the letter it returned.
ExtractorRan == result.answer # <<>>
ExtractedLetter == IF variant = "cot" THEN result.answer[1][2] ELSE result.answer[1]
RetrievedRelations == keys(result.candidates[1])
\* The letters of the first n options, "A" first.
OptionLetters(n) == [i \in 1..n |-> AsciiFrom64[i + 1]]

C2_KeysInLockstep ==
    KeySet(schema_dict) = KeySet(schema_embedding_dict)

\* C3: a canonicalize call with enrich=True that finds no match (relation
\* not canonical, no candidate selected) and in which no capability call
\* fails leaves the open relation in the schema with exactly the supplied
\* definition and returns the original triplet, with confidence 0.0 where
\* the variant reports a confidence.
C3_EnrichNoMatch ==
    [][(/\ CanonicalizeStep
        /\ call'.enrich
        /\ ~Has(schema_dict, call'.open_triplet[2])
        /\ result'.states[Len(result'.states)] # "Resolved"
        /\ result'.exc # "UpstreamError")
         => /\ result'.exc = None
            /\ Has(schema_dict', call'.open_triplet[2])
            /\ Has(call'.defs, call'.open_triplet[2])
            /\ Get(schema_dict', call'.open_triplet[2])
                   = Get(call'.defs, call'.open_triplet[2])
            /\ result'.ret[1] = call'.open_triplet
            /\ variant = "cot" => Get(result'.ret[2], "confidence") = 0]_vars

\* C4: a CoT canonicalize call with enrich=False in which the extracted
\* letter is absent, the "none" letter or out of range returns an absent
\* triplet and diagnostics with confidence 0.0.
C4_UnmappedLetterAbsent ==
    (/\ CanonicalizeDone
     /\ variant = "cot"
     /\ ~call.enrich
     /\ ExtractorRan
     /\ ~In(ExtractedLetter, OptionLetters(Len(RetrievedRelations))))
      => /\ result.exc = None
         /\ RetTriplet = Nil
         /\ Get(RetInfo, "confidence") = 0

C4_Witness ==
    /\ CanonicalizeDone
    /\ variant = "cot"
    /\ ~call.enrich
    /\ ExtractorRan
    /\ Len(RetrievedRelations) = 2
    /\ ExtractedLetter = "C"
    /\ result.answer[1][3] = 10
    /\ RetTriplet = Nil

\* C5: once a canonicalize call has enriched the schema with a relation,
\* every later canonicalize call for that relation label takes the
\* already-canonical path, returns the triplet unchanged, invokes no
\* capability and writes neither the schema mapping nor the embedding cache.
C5_EnrichmentIdempotent ==
    [][(CanonicalizeStep /\ call'.open_triplet[2] \in enriched)
         => /\ result'.states = <<"AlreadyCanonical">>
            /\ result'.exc = None
            /\ result'.ret[1] = call'.open_triplet
            /\ result'.capability_calls = <<>>
            /\ schema_dict' = schema_dict
            /\ schema_embedding_dict' = schema_embedding_dict]_vars

C5_Witness ==
    /\ CanonicalizeDone
    /\ call.open_triplet[2] \in enriched
    /\ call.enrich
    /\ result.states = <<"AlreadyCanonical">>
    /\ Has(schema_embedding_dict, call.open_triplet[2])

\* C6: a canonicalize call raises only when a capability call of that call
\* fails: for every schema (also empty), definition dictionary (also one
\* lacking the open relation), model output and enrich flag, "no match" is
\* signalled through the returned value.
C6_NeverRaises ==
    (CanonicalizeDone /\ result.exc # None) => result.exc = "UpstreamError"

\* The outcome of a call that the caller and later calls can observe.
VisibleOutcome(out) ==
    <<out.exc, out.ret, out.schema_dict, out.schema_embedding_dict>>

\* The visible outcomes of the canonicalize call with the given inputs from
\* the given instance state when the extractor returns `answer'.
OutcomesWith(v, sts, schema, emb, c, answer) ==
    {VisibleOutcome(canonicalize_of(v, sts, schema, emb, c.open_triplet,
                        c.defs, c.enrich,
                        [order |-> o, answer |-> answer, fail |-> f])) :
        o \in canonicalize_orders(sts, schema, emb, c.open_triplet, c.defs),
        f \in {"none", "encode_enrich"}}

\* Extractor results that carry no letter, or a letter past the "none" letter
\* of n candidates.
OtherUnmappedAnswers(v, n) ==
    LET out_of_range == {l \in ExtractLetters : ord(l) > ord("A") + n}
    IN  IF v = "cot"
        THEN {a \in Answers(v) : a[2] = None \/ a[2] \in out_of_range}
        ELSE {None} \cup out_of_range

\* C7: with n retrieved candidates the "none of the above" option is
\* lettered chr('A'+n), and a call in which the extractor returns that
\* letter has the same outcome (exception or returned triplet and
\* diagnostics, schema mapping and embedding cache afterwards) as the call
\* with the same inputs in which the extractor returns no letter or an
\* out-of-range letter.
C7_NoneLikeUnmapped ==
    [][(/\ CanonicalizeStep
        /\ ExtractorRan'
        /\ ExtractedLetter' = none_option_letter(RetrievedRelations'))
         => /\ none_option_letter(RetrievedRelations')
                   = chr(ord("A") + Len(RetrievedRelations'))
            /\ \A a \in OtherUnmappedAnswers(variant, Len(RetrievedRelations')) :
                   <<result'.exc, result'.ret, schema_dict', schema_embedding_dict'>>
                       \in OutcomesWith(variant, sts_query, schema_dict,
                               schema_embedding_dict, call', a)]_vars

C7_Witness ==
    /\ CanonicalizeDone
    /\ ExtractorRan
    /\ Len(RetrievedRelations) = 2
    /\ ExtractedLetter = none_option_letter(RetrievedRelations)
    /\ ExtractedLetter = "C"
    /\ call.enrich
    /\ result.exc = None

\* C8: the candidates are lettered "A", "B", ... in ranked order, and when
\* the extractor returns the letter of the i-th candidate the call returns
\* the input triplet with index 1 replaced by the i-th ranked candidate's
\* relation name, with the confidence the extractor reported (the plain
\* extractor reports none).
C8_LetterSelectsCandidate ==
    (CanonicalizeDone /\ ExtractorRan)
      => /\ choice_letters(RetrievedRelations)
               = OptionLetters(Len(RetrievedRelations))
         /\ \A i \in 1..Len(RetrievedRelations) :
               ExtractedLetter = AsciiFrom64[i + 1]
                 => /\ result.exc = None
                    /\ RetTriplet = <<call.open_triplet[1],
                                      RetrievedRelations[i],
                                      call.open_triplet[3]>>
                    /\ variant = "cot" =>
                          Get(RetInfo, "confidence") = result.answer[1][3]

C8_Witness ==
    /\ CanonicalizeDone
    /\ ExtractorRan
    /\ variant = "cot"
    /\ Len(RetrievedRelations) = 2
    /\ ExtractedLetter = "B"
    /\ RetTriplet = <<"s", RetrievedRelations[2], "o">>
    /\ Get(RetInfo, "confidence") = 7

\* The order a stable sort by descending score gives: equal scores keep
\* their insertion order.
StableDescending(scores) ==
    CHOOSE p \in IndexPermutations(Len(scores)) :
        \A i, j \in 1..Len(scores) :
            i < j => \/ scores[p[i]] > scores[p[j]]
                     \/ scores[p[i]] = scores[p[j]] /\ p[i] < p[j]

\* C9: retrieve_similar_relations(definition, top_k) returns the first
\* min(top_k, |schema|) relations of the schema by descending dot-product
\* score, equal scores in insertion order, each with its definition, and the
\* parallel list of their scores.
C9_StableTopK ==
    (pc = "returned" /\ call.op = "retrieve_similar_relations"
       /\ result.exc = None)
      => LET n == IF call.top_k < Len(schema_dict)
                  THEN call.top_k ELSE Len(schema_dict)
             scores == retrieve_scores(schema_embedding_dict, sts_query,
                                       call.definition)
             p == StableDescending(scores)
         IN  /\ Len(result.ret[1]) = n
             /\ Len(result.ret[2]) = n
             /\ keys(schema_embedding_dict) = keys(schema_dict)
                  => /\ result.ret[1] = [i \in 1..n |-> schema_dict[p[i]]]
                     /\ result.ret[2] = [i \in 1..n |-> scores[p[i]]]

\* C10: every canonicalize call in which no capability call fails returns a
\* pair (triplet or absent, info); info holds the candidate mapping (empty
\* if retrieval never ran) and, in the CoT variant, the reasoning text
\* (empty if no verification ran) and the confidence.
C10_InfoComplete ==
    (CanonicalizeDone /\ result.exc # "UpstreamError")
      => /\ result.exc = None
         /\ Len(result.ret) = 2
         /\ result.capability_calls = <<>>
               => InfoCandidates(variant, RetInfo) = <<>>
         /\ variant = "cot" =>
               /\ Has(RetInfo, "candidates")
               /\ Has(RetInfo, "reasoning")
               /\ Has(RetInfo, "confidence")
               /\ ~ExtractorRan => Get(RetInfo, "reasoning") = ""

LastState == result.states[Len(result.states)]
Count(seq, x) == Cardinality({i \in 1..Len(seq) : seq[i] = x})

\* C16: a CoT canonicalize call that reaches Enriching after a verification
\* attempt that ran without matching returns diagnostics that keep the
\* attempt's metadata: the candidate-to-score mapping retrieval produced
\* and the reasoning text the extractor produced.
C16_FailedAttemptPreserved ==
    (/\ CanonicalizeDone
     /\ variant = "cot"
     /\ result.exc = None
     /\ LastState = "Enriching"
     /\ ExtractorRan)
      => /\ Get(RetInfo, "candidates")
               = zip(RetrievedRelations, result.candidates[2])
         /\ Get(RetInfo, "reasoning") = result.answer[1][1]

\* C17: a canonicalize call for a relation that is not canonical and has no
\* entry in the definition dictionary runs no retrieval; with enrich set it
\* goes through Enriching and returns normally, without enrich it returns
\* absent, with confidence 0.0 where the variant reports a confidence.
C17_DefinitionMissing ==
    [][(/\ CanonicalizeStep
        /\ ~Has(schema_dict, call'.open_triplet[2])
        /\ ~Has(call'.defs, call'.open_triplet[2]))
         => /\ Count(result'.states, "Retrieving") = 0
            /\ result'.capability_calls = <<>> \/ call'.enrich
            /\ result'.exc = None
            /\ call'.enrich =>
                  /\ result'.states[Len(result'.states)] = "Enriching"
                  /\ result'.ret[1] = call'.open_triplet
            /\ ~call'.enrich =>
                  /\ result'.ret[1] = Nil
                  /\ variant = "cot" => Get(result'.ret[2], "confidence") = 0]_vars

\* C18: a canonicalize call on an instance whose schema mapping is empty
\* never invokes retrieval, so the retrieval error of an empty schema is
\* not raised; with enrich set it proceeds to the enrichment branch,
\* otherwise it returns absent.
C18_SchemaEmpty ==
    [][(CanonicalizeStep /\ Len(schema_dict) = 0)
         => /\ result'.states[1] = "SchemaEmpty"
            /\ Count(result'.states, "Retrieving") = 0
            /\ result'.candidates = <<<<>>, <<>>>>
            /\ result'.exc # "ValueError"
            /\ call'.enrich =>
                  /\ result'.states = <<"SchemaEmpty", "Enriching">>
                  /\ Count(result'.capability_calls, "encode") <= 1
            /\ ~call'.enrich =>
                  /\ result'.capability_calls = <<>>
                  /\ result'.exc = None
                  /\ result'.ret[1] = Nil]_vars

\* The empty schema is enriched with a relation whose definition is given.
C18_Witness ==
    /\ CanonicalizeDone
    /\ call.enrich
    /\ result.states = <<"SchemaEmpty", "Enriching">>
    /\ result.exc = None
    /\ RetTriplet = call.open_triplet
    /\ Len(schema_dict) = 1
    /\ Has(call.defs, call.open_triplet[2])

\* d extends e by exactly one entry, under a key e does not hold.
OneKeyAdded(e, d, k) ==
    /\ ~Has(e, k)
    /\ Len(d) = Len(e) + 1
    /\ d[Len(d)][1] = k
\* Every entry of e is still in d, unchanged and in place.
Preserved(e, d) ==
    Len(d) >= Len(e) /\ \A i \in 1..Len(e) : d[i] = e[i]

\* C19: over canonicalize calls the schema mapping and the embedding cache
\* change only through enrichment: a call with enrich=False, or ending
\* AlreadyCanonical or Resolved, leaves both unchanged; a call that changes
\* either of them is an enriching call and adds exactly one new key to
\* each; no key is removed and no entry of an existing relation is
\* overwritten.
C19_ChangeOnlyByEnrichment ==
    [][CanonicalizeStep
         => /\ (\/ ~call'.enrich
                \/ result'.states[Len(result'.states)]
                       \in {"AlreadyCanonical", "Resolved"})
                  => /\ schema_dict' = schema_dict
                     /\ schema_embedding_dict' = schema_embedding_dict
            /\ (\/ schema_dict' # schema_dict
                \/ schema_embedding_dict' # schema_embedding_dict)
                  => /\ result'.states[Len(result'.states)] = "Enriching"
                     /\ OneKeyAdded(schema_dict, schema_dict',
                                    call'.open_triplet[2])
                     /\ OneKeyAdded(schema_embedding_dict,
                                    schema_embedding_dict',
                                    call'.open_triplet[2])
            /\ Preserved(schema_dict, schema_dict')
            /\ Preserved(schema_embedding_dict, schema_embedding_dict')]_vars

\* The generation call of the canonicalize call raised: it was the last
\* capability invoked and the extractor never ran on an output.
GenerationFailed(r) ==
    /\ r.capability_calls # <<>>
    /\ r.capability_calls[Len(r.capability_calls)] = "generate"
    /\ r.answer = <<>>

\* C20: a canonicalize call invokes the generation capability at most once,
\* and when that invocation fails the failure reaches the caller as an
\* error: nothing is returned, nothing is retried, and the call goes no
\* further (no enrichment, no change of the schema).
C20_NoRetry ==
    [][CanonicalizeStep
         => /\ Count(result'.capability_calls, "generate") <= 1
            /\ GenerationFailed(result')
                  => /\ result'.exc = "UpstreamError"
                     /\ result'.ret = Nil
                     /\ result'.states = <<"Retrieving", "Verifying">>
                     /\ schema_dict' = schema_dict
                     /\ schema_embedding_dict' = schema_embedding_dict]_vars

\* The generation call of an enrich=True call fails.
C20_Witness ==
    /\ CanonicalizeDone
    /\ call.enrich
    /\ GenerationFailed(result)
    /\ result.exc = "UpstreamError"
    /\ result.capability_calls = <<"encode", "generate">>
    /\ Len(RetrievedRelations) = 2

(***************************************************************************)
(* The extractors' contracts.                                              *)
(***************************************************************************)
ExtractOptionDone == pc = "returned" /\ call.op = "extract_option_letter"
ExtractCotDone == pc = "returned" /\ call.op = "extract_cot_answer"
\* The letter a search result yields: the captured letter uppercased, or
\* None when nothing matched.
LetterOf(m) == IF m = Nil THEN None ELSE upper(m[2])
\* The value of the first rule that yields one, or None.
FirstWins(rules) ==
    LET hits == {k \in 1..Len(rules) : rules[k] # None}
    IN  IF hits = {} THEN None
        ELSE rules[CHOOSE k \in hits : \A j \in hits : k <= j]

\* The keyword constructs of rule (2): option X, X option, choose X,
\* Answer: X, da2 an4: X, the option letter in either case.
KeywordConstructs(answer_head) ==
    << word_then_letter(WordOption, AZaz),
       letter_then_word(AZaz, WordOption),
       word_then_letter(WordChoose, AZaz),
       marker(answer_head, AZaz),
       marker(literal(WordAnswerZh), AZaz) >>
\* ... matched without regard to case
KeywordsAnyCase ==
    [k \in 1..5 |-> ignorecase(KeywordConstructs(literal(WordAnswer))[k])]
\* ... the English keyword spelled "Answer" or "answer"
KeywordsInitialCase ==
    KeywordConstructs(<<one({"A", "a"})>> \o literal(WordNswer))

\* The six rules of the non-CoT extractor on a text, in the stated order.
SixRules(text, keywords) ==
    << IF Len(text) = 1 /\ isalpha(text[1]) THEN upper(text[1]) ELSE None,
       IF first_match(keywords, text) = Nil THEN None
       ELSE LetterOf(first_match(keywords, text)[2]),
       LetterOf(search(starting_letter(AZaz), text)),
       LetterOf(search(isolated_letter(AZaz), padded(text))),
       LetterOf(search(letter_then_word(AZaz, WordSuitable), text)),
       IF \E i \in 1..Len(text) : upper(text[i]) \in {"A", "B", "C", "D", "E", "F"}
       THEN upper(text[CHOOSE i \in 1..Len(text) :
                   /\ upper(text[i]) \in {"A", "B", "C", "D", "E", "F"}
                   /\ \A j \in 1..(i - 1) :
                          upper(text[j]) \notin {"A", "B", "C", "D", "E", "F"}])
       ELSE IF \E i \in 1..Len(text) : isalpha(text[i])
       THEN upper(text[CHOOSE i \in 1..Len(text) :
                   isalpha(text[i]) /\ \A j \in 1..(i - 1) : ~isalpha(text[j])])
       ELSE None >>

\* C11 (as stated): the non-CoT extract_option_letter returns, for every
\* text, the value of the first of the six rules that yields a letter:
\* single alphabetic character; the keyword constructs matched
\* case-insensitively; a leading letter followed by punctuation or
\* whitespace; an isolated letter; the "X more suitable" construct; the
\* first letter in A-F, else the first alphabetic character, else absent.
C11_SixRulesAnyCase ==
    (ExtractOptionDone /\ variant = "plain")
      => result.ret = FirstWins(SixRules(call.text, KeywordsAnyCase))

\* C11 (amended): the same with the keyword constructs as the code matches
\* them: the option letter in either case, the English keyword spelled
\* "Answer" or "answer" only.
C11_SixRules ==
    (ExtractOptionDone /\ variant = "plain")
      => result.ret = FirstWins(SixRules(call.text, KeywordsInitialCase))

\* A text on which a keyword construct and an isolated letter give
\* different letters, and the keyword construct wins.
C11_Witness ==
    /\ ExtractOptionDone
    /\ variant = "plain"
    /\ SixRules(call.text, KeywordsInitialCase)[1] = None
    /\ SixRules(call.text, KeywordsInitialCase)[2] = "G"
    /\ SixRules(call.text, KeywordsInitialCase)[4] = "B"
    /\ result.ret = "G"

\* The markers "Final Answer: X" (English, Chinese) and "Answer: X"
\* (English, Chinese), in any case.
FinalMarkers ==
    << ignorecase(marker(literal(WordFinalAnswerZh), AZ)),
       ignorecase(marker(literal(WordFinalAnswer), AZ)) >>
AnswerMarkers ==
    << ignorecase(marker(literal(WordAnswerZh), AZ)),
       ignorecase(marker(literal(WordAnswer), AZ)) >>
\* The last line of the text that is not blank, or <<>> if all are blank,
\* and the lines before it.
LastNonEmptyIndex(text) ==
    LET lines == split_lines(text)
        full == {k \in 1..Len(lines) : strip(lines[k]) # <<>>}
    IN  IF full = {} THEN 0 ELSE CHOOSE k \in full : \A j \in full : j <= k
LastNonEmptyLine(text) ==
    IF LastNonEmptyIndex(text) = 0 THEN <<>>
    ELSE split_lines(text)[LastNonEmptyIndex(text)]
\* The tier of a text: 1 a final-answer marker, 2 an answer marker, 3 a
\* letter in the last non-empty line, 4 a letter in the full text, 5 none.
Tier(text) ==
    IF first_match(FinalMarkers, text) # Nil THEN 1
    ELSE IF first_match(AnswerMarkers, text) # Nil THEN 2
    ELSE IF /\ LastNonEmptyIndex(text) # 0
            /\ extract_option_letter_cot(LastNonEmptyLine(text)) # None THEN 3
    ELSE IF extract_option_letter_cot(text) # None THEN 4
    ELSE 5
\* The letter and the confidence (in tenths) of each tier.
TierLetter(text, tier) ==
    IF tier = 1 THEN LetterOf(first_match(FinalMarkers, text)[2])
    ELSE IF tier = 2 THEN LetterOf(first_match(AnswerMarkers, text)[2])
    ELSE IF tier = 3 THEN extract_option_letter_cot(LastNonEmptyLine(text))
    ELSE IF tier = 4 THEN extract_option_letter_cot(text)
    ELSE None
TierConfidence == <<10, 9, 7, 5, 0>>

\* C12: extract_cot_answer gives the letter and confidence of the first
\* matching tier: a "Final Answer: X" marker anywhere in the text gives X
\* with 1.0, also when an "Answer: Y" marker occurs earlier; else an
\* "Answer: X" marker gives 0.9; else a letter from the last non-empty line
\* gives 0.7; else a letter from the full text gives 0.5; else no letter
\* and 0.0.
C12_ConfidenceTiers ==
    ExtractCotDone
      => /\ result.ret[2] = TierLetter(call.text, Tier(call.text))
         /\ result.ret[3] = TierConfidence[Tier(call.text)]

\* An "Answer: b" marker precedes a "final answer: c" marker: C with 1.0.
C12_Witness ==
    /\ ExtractCotDone
    /\ first_match(FinalMarkers, call.text) # Nil
    /\ search(AnswerMarkers[2], call.text) # Nil
    /\ search(AnswerMarkers[2], call.text)[1]
           < first_match(FinalMarkers, call.text)[2][1]
    /\ LetterOf(search(AnswerMarkers[2], call.text)) = "B"
    /\ result.ret[2] = "C"
    /\ result.ret[3] = 10

\* The non-blank lines before the last non-blank one, each trimmed, joined
\* with newlines.
PrecedingLines(text) ==
    LET lines == split_lines(text)
        before == SubSeq(lines, 1, LastNonEmptyIndex(text) - 1)
        kept == SelectSeq([k \in 1..Len(before) |-> strip(before[k])],
                          LAMBDA l : l # <<>>)
    IN  join_lines(kept)
\* The text before the marker matched in tiers 1 and 2.
BeforeMarker(text, tier) ==
    SubSeq(text, 1, first_match(IF tier = 1 THEN FinalMarkers ELSE AnswerMarkers,
                                text)[2][1])

ConstructDone == call.op = "__init__" /\ pc \in {"idle", "failed"}
Constructed == call.op = "__init__" /\ pc = "idle"
RemoteConfigured == verifier.verifier_openai_model # None
LocalConfigured ==
    verifier.verifier_model # None /\ verifier.verifier_tokenizer # None

\* C14: constructing either variant with neither a remote model identifier
\* nor a complete local backend (model together with tokenizer) fails with
\* a configuration error before any schema embedding is computed, and no
\* instance results.
C14_ConfigurationError ==
    (/\ ConstructDone
     /\ call.config.verify_openai_model = None
     /\ (call.config.verify_model = None \/ call.config.verify_tokenizer = None))
      => /\ result.exc = "AssertionError"
         /\ result.capability_calls = <<>>
         /\ pc = "failed"
         /\ verifier = NoVerifier
         /\ schema_embedding_dict = <<>>

\* A model without tokenizer and no remote identifier, a schema to embed.
C14_Witness ==
    /\ ConstructDone
    /\ call.config.verify_openai_model = None
    /\ call.config.verify_model # None
    /\ call.config.verify_tokenizer = None
    /\ Len(call.config.target_schema_dict) = 2
    /\ pc = "failed"
    /\ result.exc = "AssertionError"

\* C15: every constructed instance has exactly one generation backend
\* configured, the local one (model and tokenizer) or the remote one, never
\* both.
C15_BackendsExclusive ==
    Constructed => (RemoteConfigured /\ ~LocalConfigured)
                       \/ (LocalConfigured /\ ~RemoteConfigured)

(***************************************************************************)
(* The two extract_option_letter implementations compared.                 *)
(***************************************************************************)
\* The result of the other class's extract_option_letter on the same text.
OtherExtractorLetter ==
    IF variant = "cot" THEN extract_option_letter(call.text)
    ELSE extract_option_letter_cot(call.text)

\* C23: for every input text the extract_option_letter of
\* SchemaCanonicalizer_CoT and that of SchemaCanonicalizer return the same
\* letter, or both return nothing.
C23_ExtractorsAgree ==
    ExtractOptionDone => result.ret = OtherExtractorLetter

\* C30: for every input text each extract_option_letter returns nothing or
\* exactly one uppercase Latin letter A-Z, never a lowercase letter, a
\* non-Latin alphabetic character or several characters.
C30_UppercaseLatin ==
    ExtractOptionDone => result.ret = None \/ result.ret \in AZ

(***************************************************************************)
(* Order of the capability invocations within one canonicalize call.       *)
(***************************************************************************)
\* C24: a canonicalize call that ends AlreadyCanonical invokes neither the
\* embedding nor the generation capability; a call in the SchemaEmpty or
\* DefinitionMissing state never invokes the generation capability; on the
\* normal path the query embedding precedes the generation call, which is
\* made once.
C24_ShortCircuit ==
    CanonicalizeDone =>
        /\ In("AlreadyCanonical", result.states) => result.capability_calls = <<>>
        /\ (In("SchemaEmpty", result.states) \/ In("DefinitionMissing", result.states))
              => ~In("generate", result.capability_calls)
        /\ In("generate", result.capability_calls) =>
              /\ Count(result.capability_calls, "generate") = 1
              /\ result.capability_calls[1] = "encode"
              /\ result.capability_calls[2] = "generate"
              /\ SubSeq(result.states, 1, 2) = <<"Retrieving", "Verifying">>
        /\ In("Verifying", result.states) => In("generate", result.capability_calls)

\* A call on the normal path that goes on to enrich: embedding, generation,
\* embedding.
C24_Witness ==
    /\ CanonicalizeDone
    /\ result.states = <<"Retrieving", "Verifying", "Unresolved", "Enriching">>
    /\ result.capability_calls = <<"encode", "generate", "encode">>
    /\ result.exc = None

(***************************************************************************)
(* The returned relation label.                                            *)
(***************************************************************************)
\* C25: whenever canonicalize returns a triplet, the triplet's relation
\* label is a key of the schema mapping as it stands after the call: the
\* label was already canonical, or it is one of the retrieved candidates,
\* or the call has just added it by enrichment.
C25_ReturnedRelationInSchema ==
    [][(CanonicalizeStep /\ result'.exc = None /\ result'.ret[1] # Nil)
         => /\ Has(schema_dict', result'.ret[1][2])
            /\ \/ /\ result'.states = <<"AlreadyCanonical">>
                  /\ Has(schema_dict, result'.ret[1][2])
               \/ /\ result'.states[Len(result'.states)] = "Resolved"
                  /\ In(result'.ret[1][2], keys(result'.candidates[1]))
                  /\ Has(schema_dict, result'.ret[1][2])
               \/ /\ result'.states[Len(result'.states)] = "Enriching"
                  /\ ~Has(schema_dict, result'.ret[1][2])
                  /\ result'.ret[1][2] = call'.open_triplet[2]]_vars

\* A call resolved to the second of two retrieved candidates.
C25_Witness ==
    /\ CanonicalizeDone
    /\ LastState = "Resolved"
    /\ Len(RetrievedRelations) = 2
    /\ RetTriplet[2] = RetrievedRelations[2]
    /\ RetTriplet[2] # call.open_triplet[2]
    /\ Has(schema_dict, RetTriplet[2])

(***************************************************************************)
(* The caller's objects.                                                   *)
(***************************************************************************)
\* C26: canonicalize never changes the caller's open triplet or the
\* caller's relation-definition dictionary, and in every returned triplet
\* the subject (index 0) and the object (index 2) are those of the input
\* triplet; only the relation label (index 1) can differ.
C26_CallerObjectsUnchanged ==
    CanonicalizeDone =>
        /\ result.open_triplet = call.open_triplet
        /\ result.defs = call.defs
        /\ (result.exc = None /\ RetTriplet # Nil) =>
              /\ Len(RetTriplet) = 3
              /\ RetTriplet[1] = call.open_triplet[1]
              /\ RetTriplet[3] = call.open_triplet[3]

\* A call that replaced the relation label in its result.
C26_Witness ==
    /\ CanonicalizeDone
    /\ LastState = "Resolved"
    /\ RetTriplet[2] # call.open_triplet[2]
    /\ result.open_triplet = call.open_triplet
    /\ Len(call.defs) = 1

(***************************************************************************)
(* Enrichment when the embedding call fails.                               *)
(***************************************************************************)
\* C27: if the embedding call made during enrichment raises, the schema
\* mapping and the embedding cache are both left exactly as they were
\* before the canonicalize call.
C27_EnrichmentAtomic ==
    [][(/\ CanonicalizeStep
        /\ result'.exc = "UpstreamError"
        /\ result'.states[Len(result'.states)] = "Enriching")
         => /\ schema_dict' = schema_dict
            /\ schema_embedding_dict' = schema_embedding_dict]_vars

(***************************************************************************)
(* The confidence reported by the CoT variant.                             *)
(***************************************************************************)
ConfidenceTiers == {0, 5, 7, 9, 10}

\* C29: the confidence returned by SchemaCanonicalizer_CoT.canonicalize is
\* one of the tiers 0.0, 0.5, 0.7, 0.9, 1.0 and it is 0.0 exactly when the
\* call found no match (absent result or enrichment); extract_cot_answer
\* returns no letter if and only if its confidence is 0.0.
C29_DiscreteConfidence ==
    /\ (CanonicalizeDone /\ result.exc = None) =>
          /\ Get(RetInfo, "confidence") \in ConfidenceTiers
          /\ Get(RetInfo, "confidence") = 0
                <=> (RetTriplet = Nil \/ LastState = "Enriching")
    /\ ExtractCotDone =>
          /\ result.ret[3] \in ConfidenceTiers
          /\ result.ret[2] = None <=> result.ret[3] = 0

\* A call whose extractor was 0.9 confident of a letter that selects no
\* candidate: the call enriches and reports confidence 0.0.
C29_Witness ==
    /\ CanonicalizeDone
    /\ result.exc = None
    /\ LastState = "Enriching"
    /\ ExtractorRan
    /\ ExtractedLetter = "C"
    /\ result.answer[1][3] = 9
    /\ Get(RetInfo, "confidence") = 0

(***************************************************************************)
(* The option labels of a verification prompt.                             *)
(***************************************************************************)
LlmVerifyDone == pc = "returned" /\ call.op = "llm_verify"

\* C22: building the prompt fails with TooManyCandidatesError whenever the
\* number of candidates plus one exceeds 26, so every option label rendered
\* in a prompt, the "none" option included, is one uppercase letter A-Z.
C22_TooManyCandidates ==
    LlmVerifyDone =>
        /\ Len(call.defs) + 1 > 26 => result.exc = "TooManyCandidatesError"
        /\ \A i \in 1..Len(result.choices) : result.choices[i] \in AZ

(***************************************************************************)
(* Concurrent canonicalize calls on one instance.                          *)
(***************************************************************************)
\* The thread has executed the write of the schema mapping of the
\* enrichment branch.
WroteSchema(th) == In("schema_dict", th.writes)
\* Two calls for the same open relation have both executed that write.
EnrichedTwice ==
    \E t, u \in Threads :
        /\ t # u
        /\ WroteSchema(threads[t])
        /\ WroteSchema(threads[u])
        /\ threads[t].open_triplet[2] = threads[u].open_triplet[2]

\* C21: when the calls on an instance are serialized, no relation is
\* enriched twice: of two canonicalize calls with enrich=True for the same
\* unmatched open relation, at most one passes the already-canonical check
\* and executes the enrichment writes.  Without serialization the state in
\* which both did is reachable (C21_Witness).
C21_KnownRace ==
    serialized => ~EnrichedTwice

\* Two concurrent calls for the same relation have both passed the
\* already-canonical check, executed both enrichment writes and returned.
C21_Witness ==
    /\ ~serialized
    /\ EnrichedTwice
    /\ \A t \in Threads :
          /\ threads[t].pc = "returned"
          /\ threads[t].enrich
          /\ ~In("AlreadyCanonical", threads[t].states)
          /\ threads[t].writes = <<"schema_dict", "schema_embedding_dict">>
          /\ threads[t].ret[1] = threads[t].open_triplet

\* The thread's retrieval raised KeyError on self.schema_dict[...].
LookupKeyError(th) ==
    /\ th.pc = "raised"
    /\ th.exc = "KeyError"
    /\ th.states[Len(th.states)] = "Retrieving"

\* C28: at every step of every canonicalize call, interleaved concurrent
\* calls included, every key of the embedding cache is a key of the schema
\* mapping, and retrieval never looks up in the schema mapping a candidate
\* name that is missing from it.
C28_CacheKeysInSchema ==
    /\ KeySet(schema_embedding_dict) \subseteq KeySet(schema_dict)
    /\ \A t \in Threads : ~LookupKeyError(threads[t])

\* One thread is between the two writes of the enrichment while the other
\* is about to look its candidates up in the schema mapping.
C28_Witness ==
    /\ ~serialized
    /\ \E t, u \in Threads :
          /\ threads[t].pc = "enrich"
          /\ threads[t].writes = <<"schema_dict">>
          /\ ~Has(schema_embedding_dict, threads[t].open_triplet[2])
          /\ Has(schema_dict, threads[t].open_triplet[2])
          /\ threads[u].pc = "lookup"
          /\ Len(threads[u].names) = 1

====
